---- MODULE Spec2Model ----
(***************************************************************************)
(* Credential lifecycle and session continuity of the EHR application.     *)
(*                                                                         *)
(* Client side: the axios response interceptor of apiClient.ts (the        *)
(* RequestGateway) together with logoutAction / refreshTokenAction of      *)
(* authStore.ts (the ClientSessionManager).  JavaScript runs callbacks to  *)
(* completion, so one action is one callback run: from the arrival of a    *)
(* network response up to the next await on the network or the router,     *)
(* the promise reactions (microtasks) it schedules included.               *)
(***************************************************************************)
EXTENDS Integers, Sequences, FiniteSets, TLC

\* ------------------------------------------------------------- bounds
\* Number of protected calls the client issues.
NumCalls == 2

Calls == 1..NumCalls
None == "none"

\* ------------------------------------------------------- client: data
\* What the server answers to a protected call.  A 401 is either the
\* 'Access token has expired' failure of authMiddleware or one of its other
\* 401 failures ('Access token missing', 'Invalid access token', 'Token
\* verification failed', or 'Incorrect email or password' of login), here
\* "invalid"; 500 stands for every failure that is not a 401 (other
\* statuses, network error, timeout).
Kinds401 == {"expired", "invalid"}
Ok200 == [status |-> 200, kind |-> "ok"]
Err500 == [status |-> 500, kind |-> "other"]
Unauthorized(k) == [status |-> 401, kind |-> k]
Responses == {Ok200, Err500} \cup {Unauthorized(k) : k \in Kinds401}
NoResp == [status |-> 0, kind |-> None]

\* Failures of POST /auth/refresh: 403 (refresh credential invalid or
\* revoked) and 401 (refresh cookie missing).
RefreshFailures == {403, 401}
\* Answers to POST /auth/logout (0: none, a network failure or the timeout).
LogoutStatuses == {200, 401, 500, 0}
\* No POST /auth/logout of the user's logoutAction has been answered.
NoStatus == -1

\* What a caller gets: nothing yet, the response, the call's own failure
\* (the AxiosError of the call itself) or the failure of the refresh call.
NoError == [by |-> None, status |-> 0]
Fulfilled == [by |-> "ok", status |-> 200]
OwnError(st) == [by |-> "own", status |-> st]
RefreshError(st) == [by |-> "refresh", status |-> st]

\* The url of a protected call: any url but the two the interceptor names.
ProtectedUrl == "/patients"

VARIABLES
    isRefreshing,   \* apiClient.ts: let isRefreshing
    failedQueue,    \* apiClient.ts: let failedQueue (sequence of waiting calls)
    user,           \* authStore: user.value (None when null)
    cache,          \* sessionStorage item 'user' (None when absent)
    route,          \* router.currentRoute.value.path
    pc,             \* where each protected call stands
    retry,          \* originalRequest._retry of each call
    resp,           \* the last response each call received
    outcome,        \* what the caller of each call finally got
    replays,        \* how many times the gateway re-sent each call
    refreshCalls,   \* number of POST /auth/refresh requests made so far
    caught,         \* refreshError held by the catch block of each leading call
    logoutPc,       \* the user-invoked logoutAction
    hist            \* history: batch, no call was sent after a response was
                    \* handled; waiters, the calls that were on the wait-list
                    \* when a refresh failure was processed; logoutAnswer,
                    \* the answer to the POST of the user's last logoutAction;
                    \* released, the waiters in the order the last successful
                    \* refresh released them; logoutAt, the number of the
                    \* refresh request in flight when logoutAction was invoked

clientVars == <<isRefreshing, failedQueue, user, cache, route, pc, retry, resp,
                outcome, replays, refreshCalls, caught, logoutPc, hist>>

\* Server side: AuthService (auth.service.ts) behind the refresh, login and
\* logout controllers.  Every await on the database is a step of its own, so
\* concurrent requests interleave between their database accesses.
VARIABLES
    now,            \* the server clock (Date.now()), in seconds
    users,          \* users table: refresh_token, refresh_token_expires_at
    logins,         \* login requests in progress
    refreshes,      \* refresh requests in progress
    answered,       \* history: the refresh request answered last
    everSaved,      \* history: refresh tokens some login stored (and set as cookie)
    lastSaved,      \* history: per account, the token its latest login stored
    superseded,     \* history: tokens stored by a login before a later login
                    \* of the same account stored its token
    revoked         \* history: per account, cleared by reuse detection and no
                    \* login stored a token since

serverVars == <<now, users, logins, refreshes, answered, everSaved, lastSaved, superseded, revoked>>

\* The HTTP surface of the server as one browser sees it: authMiddleware,
\* the auth controllers and the global error handler of app.ts.  A request
\* is handled in one step here; the interleaving of requests is the subject
\* of the server part above.
VARIABLES
    nodeEnv,        \* config.nodeEnv
    accounts,       \* users table: email, password (by id)
    jar,            \* the browser's cookies accessToken and refreshToken
    reply,          \* the response to the browser's last request
    trail           \* history: endpoint and status of the response before it

apiVars == <<nodeEnv, accounts, jar, reply, trail>>

\* Registration: the register controller and AuthService.register, with a
\* step for every await on the database.
VARIABLES
    registers       \* register requests in progress or answered

accountVars == <<registers>>

\* authMiddleware as a unit: one request through the gate, the key
\* configuration being an input.
VARIABLES
    gate            \* the request at the gate and what became of it

gateVars == <<gate>>

\* authStore: checkAuthStatus at the start of the application and
\* loginAction, whose calls go through the interceptor like any other.
VARIABLES
    store           \* loading, error and the position of the two actions

storeVars == <<store>>

\* The main router of the server as a unit: one request dispatched through
\* its stack of routes and mounted routers.
VARIABLES
    dispatch        \* the request dispatched last and the handler that answered it

routeVars == <<dispatch>>

\* The token codec as a unit: the tokens one login issues under a given
\* configuration of issuer and audience, each presented in either cookie.
VARIABLES
    codec           \* configuration, issued tokens, stored token, last presentation

codecVars == <<codec>>

sideVars == <<routeVars, codecVars>>

\* The variables of the units modelled on their own.
unitVars == <<gateVars, storeVars, sideVars>>

otherVars == <<apiVars, accountVars, unitVars>>

vars == <<clientVars, serverVars, otherVars>>

Range(q) == {q[i] : i \in 1..Len(q)}

\* ------------------------------------------- client: the code's decisions
\* authStore: isAuthenticated = computed(() => !!user.value)
isAuthenticated(u) == u # None

\* A gateway that enters the refresh logic on every failure status.
TriggersOnAnyFailure(status, url, retryFlag) ==
    /\ status >= 400
    /\ url # "/auth/refresh"
    /\ url # "/auth/logout"
    /\ ~retryFlag

\* A gateway that does not exempt the refresh and logout endpoints.
TriggersOnEveryUrl(status, url, retryFlag) ==
    /\ status = 401
    /\ ~retryFlag

\* apiClient.ts 115-121: the condition that enters the refresh logic.
TriggersRefreshLogic(status, url, retryFlag) ==
    /\ status = 401
    /\ url # "/auth/refresh"
    /\ url # "/auth/logout"
    /\ ~retryFlag

\* apiClient.ts 124: !authStore.isAuthenticated && !sessionStorage.getItem('user')
SkipsRefresh(u, ss) == ~isAuthenticated(u) /\ ss = None

\* A gateway that does not consult the flag.
JoinsNever(flag) == FALSE

\* apiClient.ts 135: if (isRefreshing) -- join the refresh in flight.
JoinsInFlightRefresh(flag) == flag

\* A processQueue that resolves the waiters whatever the refresh result.
processQueueResolving(error, q) ==
    [settled |-> [i \in 1..Len(q) |->
                    [call |-> q[i], how |-> "resolve", reason |-> error]],
     queue |-> <<>>]

\* A processQueue that settles the waiters last in, first out.
processQueueReversed(error, q) ==
    [settled |-> [i \in 1..Len(q) |->
                    [call |-> q[Len(q) + 1 - i],
                     how  |-> IF error # NoError THEN "reject" ELSE "resolve",
                     reason |-> error]],
     queue |-> <<>>]

\* apiClient.ts 60-70: processQueue settles every waiter, in queue order,
\* with the refresh error (reject) or without one (resolve), and empties
\* the queue.
processQueue(error, q) ==
    [settled |-> [i \in 1..Len(q) |->
                    [call |-> q[i],
                     how  |-> IF error # NoError THEN "reject" ELSE "resolve",
                     reason |-> error]],
     queue |-> <<>>]

\* apiClient.ts 144-152: the then-callbacks of the resolved waiters run in
\* the order processQueue resolved them; each re-sends its call.
ReleaseOrder(p) ==
    LET s == SelectSeq(p.settled, LAMBDA e : e.how = "resolve")
    IN [i \in 1..Len(s) |-> s[i].call]

Resolved(p) == {p.settled[i].call : i \in {j \in 1..Len(p.settled) : p.settled[j].how = "resolve"}}
Rejected(p) == {p.settled[i].call : i \in {j \in 1..Len(p.settled) : p.settled[j].how = "reject"}}

\* apiClient.ts 113-224: what the error handler of the interceptor does
\* with a failed response, given the flag and the local authentication:
\* start the refresh, wait for the one in flight, resolve (401 on logout),
\* or reject to the caller.
Interceptor(status, url, retryFlag, u, ss, flag) ==
    IF TriggersRefreshLogic(status, url, retryFlag)
      THEN IF SkipsRefresh(u, ss) THEN "reject"
           ELSE IF JoinsInFlightRefresh(flag) THEN "enqueue" ELSE "refresh"
    ELSE IF status = 401 /\ url = "/auth/logout" THEN "resolve"
    ELSE "reject"

\* A logoutAction without its catch block: the failure of the awaited POST
\* stays pending.
PendingWithoutCatch(settled) == IF settled = "rejected" THEN "error" ELSE "none"

\* apiClient.ts 199-224 for POST /auth/logout answered with status st (0: no
\* response, a network failure or the 10 s timeout): how the promise that
\* logoutAction awaits settles.
LogoutSettles(st, u, ss, flag) ==
    IF st = 200 THEN "fulfilled"
    ELSE IF Interceptor(st, "/auth/logout", FALSE, u, ss, flag) = "resolve" THEN "fulfilled"
    ELSE "rejected"

\* authStore logoutAction 402-410: what is pending when the finally block
\* starts; the catch block logs the failure and rethrows nothing.
PendingAfterCatch(settled) == "none"

\* A gateway without the finally block: the flag is reset on the success
\* path only.
FlagResetOnSuccess(refreshed, flag) == IF refreshed THEN FALSE ELSE flag

\* apiClient.ts 194-197: finally { isRefreshing = false }, after a refresh
\* that succeeded and after one that failed.
FlagAfterFinally(refreshed, flag) == FALSE

\* authStore logoutAction 391: is the backend /auth/logout call made?
CallsBackendLogout(u, ss) == isAuthenticated(u) \/ ss # None

\* authStore logoutAction 423: is router.push('/') awaited?
NeedsNavigation(r) == r # "/"

\* ------------------------------------------------------- server: data
\* Last value of the clock.
MaxNow == 3
\* Login requests and refresh requests the server handles at the same time.
MaxLogins == 2
MaxRefreshes == 1
\* config.jwt.refreshTokenExpiresIn, on the scale of the model's clock.
RefreshTtl == 2

Logins == 1..MaxLogins
Refreshes == 1..MaxRefreshes
\* The accounts of the users table.
UserIds == {1}
\* A null refresh_token_expires_at.
NoDate == -1

\* A refresh token is the JWT of the payload {userId, email}: it is fixed by
\* the account, the second it was signed in (iat) and the key that signed it;
\* two tokens signed for one account within one second are the same string.
NoToken == [sub |-> 0, iat |-> 0, sig |-> None]
\* auth.service.ts 153-163: jwt.sign(payload, privateKey, {RS256, expiresIn}).
signRefresh(id, t) == [sub |-> id, iat |-> t, sig |-> "RS256"]
\* The exp claim jwt.sign embeds.
TokenExp(tok) == tok.iat + RefreshTtl
\* A token of the server's key whose account has no row in the users table.
GhostToken == signRefresh(3, 0)
\* A token that was not signed with the server's key.
ForgedToken == [sub |-> 1, iat |-> 0, sig |-> "forged"]
\* Every token the server's key can have signed.
SignedTokens == {signRefresh(id, t) : id \in UserIds \cup {3}, t \in 0..MaxNow}

\* A verification that does not check the signature.
jwtVerifyUnsigned(tok, t) ==
    IF t >= TokenExp(tok) THEN "TokenExpiredError" ELSE "ok"

\* auth.service.ts 235-239: jwt.verify checks the signature, then exp.
jwtVerify(tok, t) ==
    IF tok.sig # "RS256" THEN "JsonWebTokenError"
    ELSE IF t >= TokenExp(tok) THEN "TokenExpiredError"
    ELSE "ok"

\* A row of the users table (its session columns), and the absent row.
EmptyRow == [exists |-> TRUE, refreshToken |-> NoToken, refreshTokenExpiresAt |-> NoDate]
NoRow == [exists |-> FALSE, refreshToken |-> NoToken, refreshTokenExpiresAt |-> NoDate]

\* auth.service.ts 242: userRepository.findOneBy({ id }).
findOneById(db, id) == IF id \in DOMAIN db THEN db[id] ELSE NoRow

\* A validation that does not compare the presented token with the stored one.
FailsDbCheckNoCompare(row, tok, t) ==
    \/ ~row.exists
    \/ row.refreshTokenExpiresAt = NoDate
    \/ row.refreshTokenExpiresAt < t

\* A validation that rejects the stored expiry one second early.
FailsDbCheckEarly(row, tok, t) ==
    \/ ~row.exists
    \/ row.refreshToken # tok
    \/ row.refreshTokenExpiresAt = NoDate
    \/ row.refreshTokenExpiresAt <= t

\* auth.service.ts 245-250: the condition that rejects against the record.
FailsDbCheck(row, tok, t) ==
    \/ ~row.exists
    \/ row.refreshToken # tok
    \/ row.refreshTokenExpiresAt = NoDate
    \/ row.refreshTokenExpiresAt < t

\* auth.service.ts 255: user && user.refreshToken && user.refreshToken !== token.
DetectsReuse(row, tok) ==
    /\ row.exists
    /\ row.refreshToken # NoToken
    /\ row.refreshToken # tok

\* An invalidation that writes nothing.
invalidateNothing(db, id) == db

\* An invalidation that clears the token and leaves the expiry.
invalidateTokenOnly(db, id) ==
    IF id \in DOMAIN db THEN [db EXCEPT ![id].refreshToken = NoToken] ELSE db

\* auth.service.ts 284-291: update({ id }, { refreshToken: null, refreshTokenExpiresAt: null }).
invalidateUserTokens(db, id) ==
    IF id \in DOMAIN db THEN [db EXCEPT ![id] = EmptyRow] ELSE db

\* auth.service.ts 171-173: the two columns are set and saved together.
saveRefreshToken(db, id, tok, expiresAt) ==
    [db EXCEPT ![id] = [exists |-> TRUE, refreshToken |-> tok,
                        refreshTokenExpiresAt |-> expiresAt]]

\* auth.controller.ts 217-260: the status the refresh endpoint answers.
refreshStatus(returned) == IF returned = "user" THEN 200 ELSE 403

IdleLogin == [pc |-> "idle", id |-> 0, token |-> NoToken, expiresAt |-> NoDate]
IdleRefresh == [pc |-> "idle", token |-> NoToken, snap |-> NoRow, stale |-> FALSE]
\* What is kept of an answered refresh request: the token presented, what
\* validateRefreshToken returned, whether the token was superseded when the
\* row was read.
Answer(q, ret) == [token |-> q.token, returned |-> ret, stale |-> q.stale]
NoAnswer == [token |-> NoToken, returned |-> None, stale |-> FALSE]

\* The server before any request.
ServerIdle ==
    /\ now = 0
    /\ users = [id \in UserIds |-> EmptyRow]
    /\ logins = [l \in Logins |-> IdleLogin]
    /\ refreshes = [r \in Refreshes |-> IdleRefresh]
    /\ answered = NoAnswer
    /\ everSaved = {}
    /\ lastSaved = [id \in UserIds |-> NoToken]
    /\ superseded = {}
    /\ revoked = [id \in UserIds |-> FALSE]

\* ---------------------------------------------------------- api: data
\* config.jwt.accessTokenExpiresIn, on the scale of the model's clock.
AccessTtl == 1
\* RegisterUserDto.password: @MinLength(8), @MaxLength(100).
MinSecretLen == 8
MaxSecretLen == 100
\* UserEntity.hashPassword: a password of fewer than 60 characters is taken
\* for clear text and hashed.
HashThreshold == 60

Envs == {"production", "development"}
Emails == {"a@x.com", "b@x.com"}
\* A secret as the client types it: its characters and how many they are.
SecretLens == {7, 8, 59, 60, 100, 101}
Secrets == [text : {"p", "q"}, len : SecretLens]

\* What the password column holds: a bcrypt hash of a secret (60
\* characters), or the characters of the secret themselves.
bcryptHash(s) == [kind |-> "bcrypt", text |-> s.text, len |-> s.len]
Clear(s) == [kind |-> "clear", text |-> s.text, len |-> s.len]
\* bcrypt.compare(pass, stored): true only for a hash of that secret.
bcryptCompare(pass, stored) ==
    /\ stored.kind = "bcrypt"
    /\ stored.text = pass.text
    /\ stored.len = pass.len

\* The users table as the ApiSpec starts with it: one account, registered
\* with a secret the hook hashed.  A row's id is its position.
SeedSecret == [text |-> "p", len |-> 8]
SeedAccounts == << [email |-> "a@x.com", password |-> bcryptHash(SeedSecret)] >>
NoAccount == [id |-> 0, email |-> None, password |-> Clear([text |-> "", len |-> 0])]
\* userRepository.findOneBy({ email }): the row and its id, or null.
findOneByEmail(tbl, email) ==
    IF \E i \in 1..Len(tbl) : tbl[i].email = email
      THEN LET i == CHOOSE i \in 1..Len(tbl) : tbl[i].email = email
           IN [id |-> i, email |-> email, password |-> tbl[i].password]
      ELSE NoAccount

\* A password that is no string: LoginUserDto (part_005 20-21) asks of the
\* password only @IsNotEmpty, so the JSON number 12345 passes validation.
NumberSecret == [text |-> "12345", len |-> 0]
\* What the login requests of the model carry as password: the strings of
\* eight characters and the number.
LoginSecrets == {s \in Secrets : s.len = MinSecretLen} \cup {NumberSecret}
\* bcrypt.compare rejects its promise when the data is no string.
bcryptRejects(pass) == pass = NumberSecret

\* auth.service.ts 98-107: validateUser returns the user or null.
validateUser(tbl, email, pass) ==
    LET u == findOneByEmail(tbl, email)
    IN IF u # NoAccount /\ bcryptCompare(pass, u.password) THEN u ELSE NoAccount
\* auth.service.ts 99-101: validateUser rejects: `user && (await
\* bcrypt.compare(pass, user.password))` calls bcrypt only for an account
\* that exists.
validateUserThrows(tbl, email, pass) ==
    findOneByEmail(tbl, email) # NoAccount /\ bcryptRejects(pass)

\* The JwtPayload of an access token and the token that carries it.
NoPayload == [userId |-> 0, email |-> None]
NoAccess == [userId |-> 0, email |-> None, iat |-> 0, sig |-> None]
\* auth.service.ts 118-130: jwt.sign(payload, privateKey, {RS256, expiresIn,
\* issuer, audience}).
generateAccessToken(payload, t) ==
    [userId |-> payload.userId, email |-> payload.email, iat |-> t, sig |-> "RS256"]
AccessExp(tok) == tok.iat + AccessTtl
\* An access cookie that the server's key did not sign.
ForgedAccess == [userId |-> 1, email |-> "a@x.com", iat |-> 0, sig |-> "forged"]

\* utils/error.ts: the errors handed to next().
UnauthorizedError(msg) == [name |-> "UnauthorizedError", statusCode |-> 401, message |-> msg]
PlainError(msg) == [name |-> "Error", statusCode |-> 0, message |-> msg]
NoErr == [name |-> None, statusCode |-> 0, message |-> None]

\* A gate that also looks the account's session up and refuses a token
\* whose account has no stored refresh token.
authMiddlewareWithLookup(cookie, t) ==
    IF cookie = NoAccess
      THEN [user |-> NoPayload, err |-> UnauthorizedError("Access token missing")]
    ELSE IF cookie.sig # "RS256"
      THEN [user |-> NoPayload, err |-> UnauthorizedError("Invalid access token")]
    ELSE IF t >= AccessExp(cookie)
      THEN [user |-> NoPayload, err |-> UnauthorizedError("Access token has expired")]
    ELSE IF findOneById(users, cookie.userId).refreshToken = NoToken
      THEN [user |-> NoPayload, err |-> UnauthorizedError("Invalid access token")]
    ELSE [user |-> [userId |-> cookie.userId, email |-> cookie.email], err |-> NoErr]

\* A gate that lets a request without the accessToken cookie through.
authMiddlewareOpen(cookie, t) ==
    IF cookie = NoAccess THEN [user |-> NoPayload, err |-> NoErr]
    ELSE IF cookie.sig # "RS256"
      THEN [user |-> NoPayload, err |-> UnauthorizedError("Invalid access token")]
    ELSE IF t >= AccessExp(cookie)
      THEN [user |-> NoPayload, err |-> UnauthorizedError("Access token has expired")]
    ELSE [user |-> [userId |-> cookie.userId, email |-> cookie.email], err |-> NoErr]

\* A gate that still accepts a token in the second its exp names.
authMiddlewareLate(cookie, t) ==
    IF cookie = NoAccess
      THEN [user |-> NoPayload, err |-> UnauthorizedError("Access token missing")]
    ELSE IF cookie.sig # "RS256"
      THEN [user |-> NoPayload, err |-> UnauthorizedError("Invalid access token")]
    ELSE IF t > AccessExp(cookie)
      THEN [user |-> NoPayload, err |-> UnauthorizedError("Access token has expired")]
    ELSE [user |-> [userId |-> cookie.userId, email |-> cookie.email], err |-> NoErr]

\* auth.middleware.ts 38-83: what authMiddleware does with the accessToken
\* cookie at time t: next() with req.user set, or next(error).
authMiddleware(cookie, t) ==
    IF cookie = NoAccess
      THEN [user |-> NoPayload, err |-> UnauthorizedError("Access token missing")]
    ELSE IF cookie.sig # "RS256"
      THEN [user |-> NoPayload, err |-> UnauthorizedError("Invalid access token")]
    ELSE IF t >= AccessExp(cookie)
      THEN [user |-> NoPayload, err |-> UnauthorizedError("Access token has expired")]
    ELSE [user |-> [userId |-> cookie.userId, email |-> cookie.email], err |-> NoErr]

\* A gate that does not look at the key configuration.
AccessGateKeyUnchecked(cookie, publicKey, t) == authMiddleware(cookie, t)

\* auth.middleware.ts 38-83 with config.jwt.publicKey as an input (TRUE:
\* set): the missing cookie is refused first, then the missing key, then
\* the token is verified.
AccessGate(cookie, publicKey, t) ==
    IF cookie = NoAccess THEN authMiddleware(cookie, t)
    ELSE IF ~publicKey
      THEN [user |-> NoPayload,
            err |-> PlainError("Server configuration error: JWT public key missing.")]
    ELSE authMiddleware(cookie, t)

\* app.ts 80-120: the global error handler: the status of the error (500
\* when it has none) and, as message, the error's own message or in
\* production the fixed text.
errorHandler(err, env) ==
    [status |-> IF err.statusCode # 0 THEN err.statusCode ELSE 500,
     message |-> IF env = "production" THEN "Server error occurred" ELSE err.message]

\* The JSON bodies the controllers send: res.json({ message }), and the
\* global error handler's { status, statusCode, message }.
MessageBody(msg) == [message |-> msg]
ErrorBody(h) == [status |-> "error", statusCode |-> h.status, message |-> h.message]

\* A user entity as the service holds it: the columns of its row (without
\* the two timestamps createdAt and updatedAt).
UserEntity(id, acc, row) ==
    [id |-> id, email |-> acc.email, password |-> acc.password,
     refreshToken |-> row.refreshToken,
     refreshTokenExpiresAt |-> row.refreshTokenExpiresAt]

\* The columns that must not leave the server in a body.
SensitiveColumns == {"password", "refreshToken", "refreshTokenExpiresAt"}

\* A projection that strips the password only.
withoutPassword(u) == [f \in DOMAIN u \ {"password"} |-> u[f]]

\* auth.service.ts 196-205 (login) and 76-85 (register): the destructuring
\* { password, refreshToken, refreshTokenExpiresAt, ...userWithoutSensitiveData }.
userWithoutSensitiveData(u) ==
    [f \in DOMAIN u \ {"password", "refreshToken", "refreshTokenExpiresAt"} |-> u[f]]

\* A response: status, the message of its body, the payload of its body
\* (getMe), the body as sent, and what its Set-Cookie headers do to each
\* cookie.
Response(ep, st, msg, acc, ref) ==
    [endpoint |-> ep, status |-> st, message |-> msg, user |-> NoPayload,
     body |-> MessageBody(msg),
     access |-> acc, refresh |-> ref, accessToken |-> NoAccess, refreshToken |-> NoToken]
NoReply == Response(None, 0, None, "kept", "kept")

\* What the history keeps of a response.
Exchange(r) == [endpoint |-> r.endpoint, status |-> r.status]

\* The browser applies the Set-Cookie headers of a response to its cookies.
applyCookies(j, r) ==
    [accessToken |-> IF r.access = "set" THEN r.accessToken
                     ELSE IF r.access = "cleared" THEN NoAccess ELSE j.accessToken,
     refreshToken |-> IF r.refresh = "set" THEN r.refreshToken
                      ELSE IF r.refresh = "cleared" THEN NoToken ELSE j.refreshToken]

\* Before any request of the browser.
ApiIdle ==
    /\ accounts = SeedAccounts
    /\ jar = [accessToken |-> NoAccess, refreshToken |-> NoToken]
    /\ reply = NoReply
    /\ trail = Exchange(NoReply)

\* Registration: the requests the server handles at the same time.
MaxRegisters == 2
Registers == 1..MaxRegisters
IdleRegister == [pc |-> "idle", email |-> None,
                 password |-> [text |-> "", len |-> 0], status |-> 0,
                 body |-> MessageBody(None)]

\* part_004 20-22: what class-validator accepts as a password.
ValidSecret(pass) == pass.len >= MinSecretLen /\ pass.len <= MaxSecretLen

\* UserEntity.hashPassword (@BeforeInsert): the value the insert writes in
\* the password column.
hashPassword(pass) ==
    IF pass.len > 0 /\ pass.len < HashThreshold THEN bcryptHash(pass) ELSE Clear(pass)

\* utils/error.ts: ConflictError; and the error TypeORM raises when an
\* insert violates the unique index on email (it has no statusCode).
ConflictError(msg) == [name |-> "ConflictError", statusCode |-> 409, message |-> msg]
QueryFailedError == PlainError("duplicate key value violates unique constraint")

\* The gate as a unit: no request yet.
IdleGate == [pc |-> "idle", cookie |-> NoAccess, publicKey |-> TRUE, at |-> 0,
             user |-> NoPayload, handlerRan |-> FALSE, status |-> 0, message |-> None]
\* authStore as created: loading false, error null, no action started.
IdleStore == [hydrate |-> "idle", login |-> "idle", loading |-> FALSE, error |-> None]
\* The main router as a unit: no request yet.
IdleDispatch == [method |-> None, path |-> <<>>, cookie |-> NoAccess, at |-> 0,
                 handler |-> None, gated |-> FALSE, status |-> 0]
\* A JWT with its registered claims; NoJwt: no token.
NoJwt == [userId |-> 0, email |-> None, iat |-> 0, exp |-> 0, iss |-> None, aud |-> None,
          sig |-> None]
\* config/index.ts 62-63: process.env.JWT_ISSUER and JWT_AUDIENCE: not set
\* (undefined), set to the empty string, or set to a name.
Undefined == "undefined"
IssuerConfigs == {Undefined, "", "ehr"}
AudienceConfigs == {Undefined, "", "web"}
\* The codec as a unit: nothing issued, nothing presented.
IdleCodec == [issuer |-> "ehr", audience |-> "web", strictSign |-> TRUE,
              access |-> NoJwt, refresh |-> NoJwt, stored |-> NoJwt,
              channel |-> None, kind |-> None, at |-> 0, status |-> 0, newAccess |-> NoJwt]
UnitIdle ==
    /\ gate = IdleGate
    /\ store = IdleStore
    /\ dispatch = IdleDispatch
    /\ codec = IdleCodec

OtherIdle ==
    /\ nodeEnv = "development"
    /\ ApiIdle
    /\ registers = [k \in Registers |-> IdleRegister]
    /\ UnitIdle

\* ------------------------------------------------------ client: actions
\* The history before any call.
IdleHist == [batch |-> TRUE, waiters |-> {}, logoutAnswer |-> NoStatus, released |-> <<>>,
             logoutAt |-> 0]

\* The client after a login, before any protected call.
ClientIdle ==
    /\ isRefreshing = FALSE
    /\ failedQueue = <<>>
    /\ user = "u1"
    /\ cache = "u1"
    /\ pc = [c \in Calls |-> "idle"]
    /\ retry = [c \in Calls |-> FALSE]
    /\ resp = [c \in Calls |-> NoResp]
    /\ outcome = [c \in Calls |-> NoError]
    /\ replays = [c \in Calls |-> 0]
    /\ refreshCalls = 0
    /\ caught = [c \in Calls |-> NoError]
    /\ logoutPc = "idle"
    /\ hist = IdleHist

ClientInit ==
    /\ ClientIdle
    /\ route \in {"/", "/patients"}
    /\ ServerIdle
    /\ OtherIdle

\* Some code issues protected call c through apiClient.
Send(c) ==
    /\ UNCHANGED <<serverVars, otherVars>>
    /\ pc[c] = "idle"
    /\ pc' = [pc EXCEPT ![c] = "sent"]
    /\ hist' = [hist EXCEPT !.batch = @ /\ (\A d \in DOMAIN resp : resp[d] = NoResp)]
    /\ UNCHANGED <<isRefreshing, failedQueue, user, cache, route, retry, resp,
                   outcome, replays, refreshCalls, caught, logoutPc>>

\* apiClient.ts 98: a successful response passes through.
PassThrough(c) ==
    /\ pc' = [pc EXCEPT ![c] = "ok"]
    /\ outcome' = [outcome EXCEPT ![c] = Fulfilled]
    /\ UNCHANGED <<isRefreshing, failedQueue, retry, refreshCalls>>

\* apiClient.ts 131 and 224: return Promise.reject(error).
RejectToCaller(c, r) ==
    /\ pc' = [pc EXCEPT ![c] = "failed"]
    /\ outcome' = [outcome EXCEPT ![c] = OwnError(r.status)]
    /\ UNCHANGED <<isRefreshing, failedQueue, retry, refreshCalls>>

\* apiClient.ts 141-143: failedQueue.push({ resolve, reject }).
Enqueue(c) ==
    /\ pc' = [pc EXCEPT ![c] = "queued"]
    /\ failedQueue' = Append(failedQueue, c)
    /\ UNCHANGED <<isRefreshing, outcome, retry, refreshCalls>>

\* apiClient.ts 165-170 and authStore refreshTokenAction 438-440: set the
\* flag, mark the call, post /auth/refresh and await it.
InitiateRefresh(c) ==
    /\ isRefreshing' = TRUE
    /\ retry' = [retry EXCEPT ![c] = TRUE]
    /\ refreshCalls' = refreshCalls + 1
    /\ pc' = [pc EXCEPT ![c] = "leading"]
    /\ UNCHANGED <<failedQueue, outcome>>

\* apiClient.ts 97-226: the response to call c (first send or replay)
\* arrives and the interceptor runs.
Respond(c, r) ==
    /\ UNCHANGED <<serverVars, otherVars>>
    /\ pc[c] \in {"sent", "resent"}
    /\ resp' = [resp EXCEPT ![c] = r]
    /\ IF r.status = 200
         THEN PassThrough(c)
         ELSE IF TriggersRefreshLogic(r.status, ProtectedUrl, retry[c])
                THEN IF SkipsRefresh(user, cache)
                       THEN RejectToCaller(c, r)
                       ELSE IF JoinsInFlightRefresh(isRefreshing)
                              THEN Enqueue(c)
                              ELSE InitiateRefresh(c)
                ELSE RejectToCaller(c, r)
    /\ UNCHANGED <<user, cache, route, replays, caught, logoutPc, hist>>

\* apiClient.ts 170-178 and 194-197, with the reactions 144-152 of the
\* waiters: the refresh call succeeded.  processQueue(null) resolves the
\* waiters, the leader re-sends its call, the finally block clears the flag,
\* then each resolved waiter re-sends its call.
RefreshSucceeds(c) ==
    /\ UNCHANGED <<serverVars, otherVars>>
    /\ pc[c] = "leading"
    /\ LET p == processQueue(NoError, failedQueue)
           again == Resolved(p) \cup {c}
       IN /\ failedQueue' = p.queue
          /\ pc' = [d \in DOMAIN pc |->
                      IF d \in again THEN "resent"
                      ELSE IF d \in Rejected(p) THEN "failed" ELSE pc[d]]
          /\ outcome' = [d \in DOMAIN pc |->
                      IF d \in Rejected(p) THEN NoError ELSE outcome[d]]
          /\ replays' = [d \in DOMAIN pc |->
                      IF d \in again THEN replays[d] + 1 ELSE replays[d]]
          /\ hist' = [hist EXCEPT !.released = ReleaseOrder(p)]
    /\ isRefreshing' = FlagAfterFinally(TRUE, isRefreshing)
    /\ UNCHANGED <<user, cache, route, retry, resp, refreshCalls, caught, logoutPc>>

\* authStore logoutAction 381-382 (clearError, loading) and 418 (the finally
\* block) on the store's loading and error.
logoutBegins(s) == [s EXCEPT !.loading = TRUE, !.error = None]
logoutFinally(s) == [s EXCEPT !.loading = FALSE]

\* authStore logoutAction 410-430 as run for leading call c: the finally
\* block clears the user and the cache; then either router.push('/') is
\* awaited, or logoutAction returns and the interceptor rejects with the
\* refresh error (193) and clears the flag (196).
ForcedLogoutCleanup(c, err, pcs, outs) ==
    /\ user' = None
    /\ cache' = None
    /\ IF NeedsNavigation(route)
         THEN /\ pc' = [pcs EXCEPT ![c] = "forcedLogoutNav"]
              /\ outcome' = outs
              /\ UNCHANGED isRefreshing
         ELSE /\ pc' = [pcs EXCEPT ![c] = "failed"]
              /\ outcome' = [outs EXCEPT ![c] = err]
              /\ isRefreshing' = FlagAfterFinally(FALSE, isRefreshing)

\* apiClient.ts 179-190 with the reactions 153-160 of the waiters: the
\* refresh call failed with status st.  processQueue(refreshError) rejects
\* the waiters, then logoutAction starts (authStore 380-401).
RefreshFails(c, st) ==
    /\ UNCHANGED <<serverVars, apiVars, accountVars, gateVars, sideVars>>
    /\ store' = IF CallsBackendLogout(user, cache)
                  THEN logoutBegins(store)
                  ELSE logoutFinally(logoutBegins(store))
    /\ pc[c] = "leading"
    /\ LET err == RefreshError(st)
           p == processQueue(err, failedQueue)
           pcs == [d \in DOMAIN pc |->
                      IF d \in Rejected(p) THEN "failed"
                      ELSE IF d \in Resolved(p) THEN "resent" ELSE pc[d]]
           outs == [d \in DOMAIN pc |->
                      IF d \in Rejected(p) THEN err ELSE outcome[d]]
       IN /\ failedQueue' = p.queue
          /\ caught' = [caught EXCEPT ![c] = err]
          /\ replays' = [d \in DOMAIN pc |->
                      IF d \in Resolved(p) THEN replays[d] + 1 ELSE replays[d]]
          /\ hist' = [hist EXCEPT !.waiters = @ \cup Range(failedQueue)]
          /\ IF CallsBackendLogout(user, cache)
               THEN /\ pc' = [pcs EXCEPT ![c] = "forcedLogoutApi"]
                    /\ outcome' = outs
                    /\ UNCHANGED <<user, cache, isRefreshing>>
               ELSE ForcedLogoutCleanup(c, err, pcs, outs)
    /\ UNCHANGED <<route, retry, resp, refreshCalls, logoutPc>>

\* authStore logoutAction 393-430 for leading call c: POST /auth/logout is
\* answered.  200 resolves, 401 is resolved by the interceptor (199-219),
\* any other failure is caught (402-409); the finally block runs in all.
ForcedLogoutResponds(c, st) ==
    /\ UNCHANGED <<serverVars, apiVars, accountVars, gateVars, sideVars>>
    /\ store' = logoutFinally(store)
    /\ pc[c] = "forcedLogoutApi"
    /\ ForcedLogoutCleanup(c, caught[c], pc, outcome)
    /\ UNCHANGED <<failedQueue, route, retry, resp, replays, refreshCalls,
                   caught, logoutPc, hist>>

\* authStore logoutAction 426 for leading call c: router.push('/') is done;
\* apiClient.ts 193-196 follow.
ForcedLogoutNavigated(c) ==
    /\ UNCHANGED <<serverVars, otherVars>>
    /\ pc[c] = "forcedLogoutNav"
    /\ route' = "/"
    /\ pc' = [pc EXCEPT ![c] = "failed"]
    /\ outcome' = [outcome EXCEPT ![c] = caught[c]]
    /\ isRefreshing' = FlagAfterFinally(FALSE, isRefreshing)
    /\ UNCHANGED <<failedQueue, user, cache, retry, resp, replays, refreshCalls,
                   caught, logoutPc, hist>>

\* authStore logoutAction 410-430 as invoked by the user.
LogoutCleanup(pending) ==
    /\ user' = None
    /\ cache' = None
    /\ logoutPc' = IF NeedsNavigation(route)
                     THEN (IF pending = "none" THEN "nav" ELSE "navThrowing")
                     ELSE (IF pending = "none" THEN "done" ELSE "threw")

\* authStore logoutAction 380-401: the user logs out.
LogoutStart ==
    /\ UNCHANGED <<serverVars, apiVars, accountVars, gateVars, sideVars>>
    /\ store' = IF CallsBackendLogout(user, cache)
                  THEN logoutBegins(store)
                  ELSE logoutFinally(logoutBegins(store))
    /\ logoutPc \in {"idle", "done"}
    /\ IF CallsBackendLogout(user, cache)
         THEN /\ logoutPc' = "api"
              /\ UNCHANGED <<user, cache>>
         ELSE LogoutCleanup("none")
    /\ hist' = [hist EXCEPT !.logoutAt = IF isRefreshing THEN refreshCalls ELSE 0]
    /\ UNCHANGED <<isRefreshing, failedQueue, route, pc, retry, resp, outcome,
                   replays, refreshCalls, caught>>

\* authStore logoutAction 393-420: POST /auth/logout of the user's logout
\* is answered (200, 401 resolved by apiClient.ts 199-219, or a failure).
logoutAnswered(st) ==
    /\ store' = logoutFinally(store)
    /\ logoutPc = "api"
    /\ LogoutCleanup(PendingAfterCatch(LogoutSettles(st, user, cache, isRefreshing)))
    /\ hist' = [hist EXCEPT !.logoutAnswer = st]
    /\ UNCHANGED <<isRefreshing, failedQueue, route, pc, retry, resp, outcome,
                   replays, refreshCalls, caught>>

\* The same with the server left out of the picture: any answer can come.
LogoutResponds(st) ==
    /\ UNCHANGED <<serverVars, apiVars, accountVars, gateVars, sideVars>>
    /\ logoutAnswered(st)

\* authStore logoutAction 426: router.push('/') of the user's logout is done.
LogoutNavigated ==
    /\ UNCHANGED <<serverVars, otherVars>>
    /\ logoutPc \in {"nav", "navThrowing"}
    /\ route' = "/"
    /\ logoutPc' = IF logoutPc = "nav" THEN "done" ELSE "threw"
    /\ UNCHANGED <<isRefreshing, failedQueue, user, cache, pc, retry, resp,
                   outcome, replays, refreshCalls, caught, hist>>

ClientNext ==
    \/ \E c \in Calls : Send(c)
    \/ \E c \in Calls, r \in Responses : Respond(c, r)
    \/ \E c \in Calls : RefreshSucceeds(c)
    \/ \E c \in Calls, st \in RefreshFailures : RefreshFails(c, st)
    \/ \E c \in Calls, st \in LogoutStatuses : ForcedLogoutResponds(c, st)
    \/ \E c \in Calls : ForcedLogoutNavigated(c)
    \/ LogoutStart
    \/ \E st \in LogoutStatuses : LogoutResponds(st)
    \/ LogoutNavigated

ClientSpec == ClientInit /\ [][ClientNext]_vars

\* The POST /auth/logout of logoutAction settles (apiClient.ts: timeout
\* 10000) and the awaited router.push settles.
ClientFairSpec ==
    /\ ClientSpec
    /\ WF_vars(\E st \in LogoutStatuses : LogoutResponds(st))
    /\ WF_vars(LogoutNavigated)

\* ----------------------------------------------- client: derived notions
\* The calls whose POST /auth/refresh awaits its answer.
InFlight == {c \in Calls : pc[c] = "leading"}
\* The number of refresh requests that have been answered.
Settled == refreshCalls - Cardinality(InFlight)
\* Call c receives a response in this step (its interceptor run).
Handled(c) == pc[c] \in {"sent", "resent"} /\ pc'[c] # pc[c]
\* Nothing is in flight and nothing remains to be issued.
Terminated ==
    /\ \A c \in Calls : pc[c] \in {"ok", "failed", "queued"}
    /\ logoutPc \in {"idle", "done"}
\* So far every call has been answered exactly once, with the expired 401.
FirstAnswersAllExpired ==
    \A c \in Calls :
        /\ pc[c] \notin {"idle", "sent"}
        /\ resp[c] = Unauthorized("expired")
        /\ replays[c] = 0 \/ (replays[c] = 1 /\ pc[c] = "resent")

\* The answer to a POST /auth/refresh or to a POST /auth/logout arrives in
\* this step.
AuthCallAnswered ==
    \/ \E c \in Calls : pc[c] \in {"leading", "forcedLogoutApi"} /\ pc'[c] # pc[c]
    \/ logoutPc = "api" /\ logoutPc' # "api"

\* ------------------------------------------------------ client: claims
\* C1: at every moment at most one refresh request is in flight; while
\* isRefreshing is true no step makes a refresh request, and a 401 that
\* enters the refresh logic then (call not yet retried, client locally
\* authenticated) is appended to failedQueue.
C1_SingleFlight ==
    [][ /\ Cardinality(InFlight') <= 1
        /\ isRefreshing =>
             /\ refreshCalls' = refreshCalls
             /\ \A c \in Calls :
                   ( /\ Handled(c)
                     /\ resp'[c].status = 401
                     /\ ~retry[c]
                     /\ ~SkipsRefresh(user, cache) )
                   => /\ pc'[c] = "queued"
                      /\ failedQueue' = Append(failedQueue, c) ]_vars

\* C1 witness: a 401 was enqueued behind the refresh in flight.
C1_Witness ==
    /\ isRefreshing
    /\ Cardinality(InFlight) = 1
    /\ Len(failedQueue) >= 1
    /\ refreshCalls = 1

\* C2 as stated: N concurrent calls of an authenticated client that all
\* fail with the expired 401 cause exactly one refresh request in total.
C2_ExactlyOneRefreshInTotal ==
    (hist.batch /\ logoutPc = "idle" /\ FirstAnswersAllExpired) => refreshCalls = 1

\* C2 amended: all the 401 responses handled before the first refresh
\* settles cause exactly one refresh request between them (none when no
\* call entered the refresh path), and no call ever starts more than one
\* refresh request, so the total never exceeds the number of calls.
C2_OneRefreshUntilSettled ==
    /\ Settled = 0 =>
          refreshCalls = IF \E c \in Calls : pc[c] \in {"queued", "leading"}
                           THEN 1 ELSE 0
    /\ refreshCalls <= NumCalls

\* C2 witness: every call failed with the expired 401 before the refresh
\* settled: one leads, the others wait, one refresh request was made.
C2_Witness ==
    /\ hist.batch
    /\ \A c \in Calls : pc[c] \in {"queued", "leading"}
                        /\ resp[c] = Unauthorized("expired")
    /\ Len(failedQueue) = NumCalls - 1
    /\ refreshCalls = 1

\* C3 as stated: no enqueued call stays pending: once nothing is in flight
\* any more, no call is still waiting on failedQueue.
C3_WaitersSettled ==
    Terminated => \A c \in Calls : pc[c] # "queued"

\* C4 as stated: the gateway re-sends every call at most once.
C4_RetriedAtMostOnce ==
    \A c \in Calls : replays[c] <= 1

\* C9: once a refresh call failed, every call that was waiting on the
\* wait-list is rejected with that refresh failure, the leading call goes
\* through logoutAction, and when it is rejected (with the same failure) the
\* user and the cached user are gone and isRefreshing is false.
C9_RefreshFailureFanOut ==
    \A c \in Calls :
        caught[c] # NoError =>
            /\ caught[c].by = "refresh"
            /\ \A w \in hist.waiters :
                   pc[w] = "failed" /\ outcome[w] = caught[c]
            /\ pc[c] \in {"forcedLogoutApi", "forcedLogoutNav", "failed"}
            /\ pc[c] = "failed" =>
                   /\ outcome[c] = caught[c]
                   /\ user = None
                   /\ cache = None
                   /\ ~isRefreshing

\* C9 witness: a refresh failed with a call waiting, and the leading call
\* has come back from the forced logout.
C9_Witness ==
    \E c \in Calls :
        /\ caught[c] # NoError
        /\ pc[c] = "failed"
        /\ hist.waiters # {}

C12_AuthEndpointsTerminal ==
    /\ [](\A f \in BOOLEAN :
            /\ Interceptor(401, "/auth/refresh", f, user, cache, isRefreshing) = "reject"
            /\ Interceptor(401, "/auth/logout", f, user, cache, isRefreshing) = "resolve")
    /\ [][ AuthCallAnswered =>
              /\ refreshCalls' = refreshCalls
              /\ Len(failedQueue') <= Len(failedQueue) ]_vars

\* C12 witness: a refresh request was answered 401 while the client was
\* authenticated; the leading call is in the forced logout and no second
\* refresh request was made.
C12_Witness ==
    \E c \in Calls :
        /\ caught[c] = RefreshError(401)
        /\ pc[c] = "forcedLogoutApi"
        /\ user # None
        /\ refreshCalls = 1

\* C16: a logoutAction of the user, started authenticated or anonymous,
\* never ends by throwing, has cleared user and the cached user when it
\* ends, and does end once its POST /auth/logout is answered (200, 401,
\* another status or no response) and its navigation settles.
C16_LogoutEndsAnonymous ==
    /\ [](logoutPc \notin {"navThrowing", "threw"})
    /\ [](logoutPc \in {"nav", "done"} => user = None /\ cache = None)
    /\ (logoutPc \in {"api", "nav"}) ~> (logoutPc = "done")

\* A logoutAction whose POST /auth/logout failed with 500 has ended.
C16_Witness ==
    /\ logoutPc = "done"
    /\ hist.logoutAnswer = 500
    /\ user = None
    /\ cache = None

\* ------------------------------------------------------ server: actions
ServerInit ==
    /\ ServerIdle
    /\ ClientIdle
    /\ route = "/"
    /\ OtherIdle

\* The tokens a client can hold: those a login stored and sent as a cookie,
\* and the two tokens no login of this server's table produced.
Presentable == everSaved \cup {GhostToken, ForgedToken}

\* The tokens logins of account id have stored so far.
StoredFor(id) == {t \in everSaved : t.sub = id}

\* Requests are interchangeable: a new one is numbered with the first
\* number not in use (0 when all are in use and it has to wait).
FirstFree(S, f) ==
    IF \E i \in S : f[i].pc = "idle"
      THEN CHOOSE i \in S : f[i].pc = "idle" /\ \A j \in S : f[j].pc = "idle" => i <= j
      ELSE 0

\* Time passes.
Tick ==
    /\ now < MaxNow
    /\ now' = now + 1
    /\ UNCHANGED <<users, logins, refreshes, answered, everSaved, lastSaved, superseded, revoked>>
    /\ UNCHANGED <<clientVars, otherVars>>

\* auth.controller.ts 162-176 and auth.service.ts 145-172: a login with the
\* right password for account id signs the refresh token and computes the
\* expiry of the record, then awaits the save.
LoginSign(l, id) ==
    /\ l = FirstFree(Logins, logins)
    /\ logins' = [logins EXCEPT ![l] =
                    [pc |-> "saving", id |-> id, token |-> signRefresh(id, now),
                     expiresAt |-> now + RefreshTtl]]
    /\ UNCHANGED <<now, users, refreshes, answered, everSaved, lastSaved, superseded, revoked>>
    /\ UNCHANGED <<clientVars, otherVars>>

\* auth.service.ts 173-176 and auth.controller.ts 182-185: the save reaches
\* the database; the token goes out as the refreshToken cookie.
LoginSave(l) ==
    /\ logins[l].pc = "saving"
    /\ LET g == logins[l]
       IN /\ users' = saveRefreshToken(users, g.id, g.token, g.expiresAt)
          /\ everSaved' = everSaved \cup {g.token}
          /\ lastSaved' = [lastSaved EXCEPT ![g.id] = g.token]
          /\ superseded' = superseded \cup StoredFor(g.id)
          /\ revoked' = [revoked EXCEPT ![g.id] = FALSE]
    /\ logins' = [logins EXCEPT ![l] = IdleLogin]
    /\ UNCHANGED <<now, refreshes, answered>>
    /\ UNCHANGED <<clientVars, otherVars>>

\* auth.controller.ts 275-305 and auth.service.ts 302-305: a logout of
\* account id, admitted by authMiddleware, invalidates its tokens.
Logout(id) ==
    /\ users' = invalidateUserTokens(users, id)
    /\ UNCHANGED <<now, logins, refreshes, answered, everSaved, lastSaved, superseded, revoked>>
    /\ UNCHANGED <<clientVars, otherVars>>

\* auth.controller.ts 200-214 and auth.service.ts 226-242: a refresh request
\* presents token tok; jwt.verify either throws (the catch returns null) or
\* the lookup of the user is awaited.
RefreshStart(r, tok) ==
    /\ r = FirstFree(Refreshes, refreshes)
    /\ IF jwtVerify(tok, now) = "ok"
         THEN /\ refreshes' = [refreshes EXCEPT ![r] =
                    [IdleRefresh EXCEPT !.pc = "lookup", !.token = tok]]
              /\ UNCHANGED answered
         ELSE /\ answered' = Answer([IdleRefresh EXCEPT !.token = tok], "null")
              /\ UNCHANGED refreshes
    /\ UNCHANGED <<now, users, logins, everSaved, lastSaved, superseded, revoked>>
    /\ UNCHANGED <<clientVars, otherVars>>

\* auth.service.ts 242: findOneBy reads the row.
RefreshLookup(r) ==
    /\ refreshes[r].pc = "lookup"
    /\ LET tok == refreshes[r].token
       IN refreshes' = [refreshes EXCEPT ![r] =
             [@ EXCEPT !.pc = "found",
                       !.snap = findOneById(users, tok.sub),
                       !.stale = (tok \in superseded)]]
    /\ UNCHANGED <<now, users, logins, answered, everSaved, lastSaved, superseded, revoked>>
    /\ UNCHANGED <<clientVars, otherVars>>

\* auth.service.ts 245-267: the row read is checked against the token and
\* the clock; the user is returned, or null, or first the invalidation of
\* the user's tokens is awaited.
RefreshDecide(r) ==
    /\ refreshes[r].pc = "found"
    /\ LET q == refreshes[r]
       IN IF FailsDbCheck(q.snap, q.token, now)
            THEN IF DetectsReuse(q.snap, q.token)
                   THEN /\ refreshes' = [refreshes EXCEPT ![r] =
                              [q EXCEPT !.pc = "clearing"]]
                        /\ UNCHANGED answered
                   ELSE /\ refreshes' = [refreshes EXCEPT ![r] = IdleRefresh]
                        /\ answered' = Answer(q, "null")
            ELSE /\ refreshes' = [refreshes EXCEPT ![r] = IdleRefresh]
                 /\ answered' = Answer(q, "user")
    /\ UNCHANGED <<now, users, logins, everSaved, lastSaved, superseded, revoked>>
    /\ UNCHANGED <<clientVars, otherVars>>

\* auth.service.ts 259-261: invalidateUserTokens reaches the database, then
\* null is returned.
RefreshClear(r) ==
    /\ refreshes[r].pc = "clearing"
    /\ LET q == refreshes[r]
       IN /\ users' = invalidateUserTokens(users, q.token.sub)
          /\ revoked' = [revoked EXCEPT ![q.token.sub] = TRUE]
          /\ refreshes' = [refreshes EXCEPT ![r] = IdleRefresh]
          /\ answered' = Answer(q, "null")
    /\ UNCHANGED <<now, logins, everSaved, lastSaved, superseded>>
    /\ UNCHANGED <<clientVars, otherVars>>

ServerNext ==
    \/ Tick
    \/ \E l \in Logins, id \in UserIds : LoginSign(l, id)
    \/ \E l \in Logins : LoginSave(l)
    \/ \E id \in UserIds : Logout(id)
    \/ \E r \in Refreshes, tok \in Presentable : RefreshStart(r, tok)
    \/ \E r \in Refreshes : RefreshLookup(r)
    \/ \E r \in Refreshes : RefreshDecide(r)
    \/ \E r \in Refreshes : RefreshClear(r)

ServerSpec == ServerInit /\ [][ServerNext]_vars

\* ----------------------------------------------- server: derived notions
\* auth.service.ts 235-267 run as a whole against the present row and clock:
\* validateRefreshToken would return the user for token tok.
Accepts(tok) ==
    /\ jwtVerify(tok, now) = "ok"
    /\ ~FailsDbCheck(findOneById(users, tok.sub), tok, now)
\* Refresh request r reads the row, decides, or finishes its clearing in
\* this step.
Decides(r) == refreshes[r].pc = "found" /\ refreshes'[r].pc # "found"
Cleared(r) == refreshes[r].pc = "clearing" /\ refreshes'[r].pc # "clearing"

\* ------------------------------------------------------ server: claims
\* C5 as stated: a refresh token that a login stored before a later login
\* of the same account stored its token is never accepted: the refresh
\* request presenting it is answered 403.
C5_SupersededRejected ==
    answered.stale =>
        /\ answered.returned = "null"
        /\ refreshStatus(answered.returned) = 403

C8_ReturnsUserIff ==
    [][ /\ \A r \in Refreshes :
              LET q == refreshes[r]
                  p == refreshes'[r]
              IN /\ (q.pc = "idle" /\ p.pc # "idle")
                    => /\ p.pc = "lookup"
                       /\ p.token.sig = "RS256"
                       /\ now < p.token.iat + RefreshTtl
                 /\ Decides(r)
                    => /\ p.pc \in {"idle", "clearing"}
                       /\ p.pc = "idle" => answered'.token = q.token
                       /\ (p.pc = "idle" /\ answered'.returned = "user")
                          <=> ( /\ q.snap.exists
                                /\ q.snap.refreshToken = q.token
                                /\ q.snap.refreshTokenExpiresAt # NoDate
                                /\ q.snap.refreshTokenExpiresAt >= now )
                 /\ Cleared(r) => answered'.returned = "null"
        /\ (answered' # answered /\ refreshes' = refreshes)
              => /\ answered'.returned = "null"
                 /\ \/ answered'.token.sig # "RS256"
                    \/ now >= answered'.token.iat + RefreshTtl ]_vars

\* C8 witness: a token was verified within its lifetime, and the user was
\* returned at the very second the stored expiry names.
C8_Witness ==
    /\ answered.returned = "user"
    /\ now = TokenExp(answered.token)

\* --------------------------------------------------------- api: actions
\* A validation that trusts the signature and the embedded expiry alone.
validateWithoutRecord(db, tok, t) ==
    [userId |-> IF jwtVerify(tok, t) = "ok" THEN tok.sub ELSE 0, db |-> db]

\* A validation that consumes the token it accepts: the record is cleared
\* so that the token is good for one refresh.
validateAndConsume(db, tok, t) ==
    LET row == findOneById(db, tok.sub)
        verified == jwtVerify(tok, t) = "ok"
    IN [userId |-> IF verified /\ ~FailsDbCheck(row, tok, t) THEN tok.sub ELSE 0,
        db |-> IF verified /\ (~FailsDbCheck(row, tok, t) \/ DetectsReuse(row, tok))
                 THEN invalidateUserTokens(db, tok.sub) ELSE db]

\* auth.service.ts 226-275 run without interleaving: the user id returned
\* (0 for null) and the table it leaves.
validateRefreshToken(db, tok, t) ==
    LET row == findOneById(db, tok.sub)
        verified == jwtVerify(tok, t) = "ok"
    IN [userId |-> IF verified /\ ~FailsDbCheck(row, tok, t) THEN tok.sub ELSE 0,
        db |-> IF verified /\ FailsDbCheck(row, tok, t) /\ DetectsReuse(row, tok)
                 THEN invalidateUserTokens(db, tok.sub) ELSE db]

\* The response the global error handler sends for error err.
ErrorReply(ep, err, acc, ref) ==
    LET h == errorHandler(err, nodeEnv)
    IN [Response(ep, h.status, h.message, acc, ref) EXCEPT !.body = ErrorBody(h)]

\* The browser receives response r.
Receive(r) ==
    /\ reply' = r
    /\ jar' = applyCookies(jar, r)
    /\ trail' = Exchange(reply)

ApiInit ==
    /\ nodeEnv \in Envs
    /\ ApiIdle
    /\ registers = [k \in Registers |-> IdleRegister]
    /\ UnitIdle
    /\ ServerIdle
    /\ ClientIdle
    /\ route = "/"

\* Time passes.
ApiTick ==
    /\ now < MaxNow
    /\ now' = now + 1
    /\ UNCHANGED <<users, logins, refreshes, answered, everSaved, lastSaved, superseded, revoked>>
    /\ UNCHANGED <<clientVars, apiVars, accountVars, unitVars>>

\* The browser's cookie is replaced by one the server never issued.
ApiTamper(which) ==
    /\ jar' = IF which = "accessToken"
                THEN [jar EXCEPT !.accessToken = ForgedAccess]
                ELSE [jar EXCEPT !.refreshToken = ForgedToken]
    /\ UNCHANGED <<nodeEnv, accounts, reply, trail>>
    /\ UNCHANGED <<clientVars, serverVars, accountVars, unitVars>>

\* The refresh cookie of the request is a token an earlier login issued (a
\* copy kept from an earlier session, or one taken from another browser).
ApiReplay(tok) ==
    /\ tok \in everSaved
    /\ tok # jar.refreshToken
    /\ jar' = [jar EXCEPT !.refreshToken = tok]
    /\ UNCHANGED <<nodeEnv, accounts, reply, trail>>
    /\ UNCHANGED <<clientVars, serverVars, accountVars, unitVars>>

\* auth.controller.ts 152-191 with auth.service.ts 187-210: POST
\* /api/auth/login with a well-formed body.
ApiLogin(email, pass) ==
    /\ LET u == validateUser(accounts, email, pass)
           payload == [userId |-> u.id, email |-> u.email]
           refreshToken == signRefresh(u.id, now)
           saved == saveRefreshToken(users, u.id, refreshToken, now + RefreshTtl)
       IN IF validateUserThrows(accounts, email, pass)
            THEN /\ Receive(ErrorReply("login",
                                        PlainError("data and hash must be strings"),
                                        "kept", "kept"))
                 /\ UNCHANGED <<users, everSaved>>
          ELSE IF u = NoAccount
            THEN /\ Receive(Response("login", 401, "Incorrect email or password",
                                      "kept", "kept"))
                 /\ UNCHANGED <<users, everSaved>>
            ELSE /\ users' = saved
                 /\ everSaved' = everSaved \cup {refreshToken}
                 /\ Receive([Response("login", 200, None, "set", "set") EXCEPT
                                !.user = payload,
                                !.body = userWithoutSensitiveData(
                                             UserEntity(u.id, accounts[u.id], saved[u.id])),
                                !.accessToken = generateAccessToken(payload, now),
                                !.refreshToken = refreshToken])
    /\ UNCHANGED <<now, logins, refreshes, answered, lastSaved, superseded, revoked>>
    /\ UNCHANGED <<nodeEnv, accounts>>
    /\ UNCHANGED <<clientVars, accountVars, unitVars>>

\* auth.controller.ts 200-266: POST /api/auth/refresh with the browser's
\* refreshToken cookie.
ApiRefresh ==
    /\ IF jar.refreshToken = NoToken
         THEN /\ Receive(Response("refresh", 401, "Refresh token missing", "kept", "kept"))
              /\ UNCHANGED users
         ELSE LET v == validateRefreshToken(users, jar.refreshToken, now)
                  payload == [userId |-> v.userId, email |-> accounts[v.userId].email]
              IN /\ users' = v.db
                 /\ IF v.userId = 0
                      THEN Receive(Response("refresh", 403,
                                            "Refresh token is invalid or expired",
                                            "cleared", "cleared"))
                      ELSE Receive([Response("refresh", 200,
                                             "Access token refreshed successfully",
                                             "set", "kept") EXCEPT
                                      !.accessToken = generateAccessToken(payload, now)])
    /\ UNCHANGED <<now, logins, refreshes, answered, everSaved, lastSaved, superseded, revoked>>
    /\ UNCHANGED <<nodeEnv, accounts>>
    /\ UNCHANGED <<clientVars, accountVars, unitVars>>

\* routes/index.ts (auth.routes) and auth.controller.ts 275-316: POST
\* /api/auth/logout behind authMiddleware; dbOk is whether the update of
\* invalidateUserTokens succeeds.
PostLogout(dbOk) ==
    /\ LET g == authMiddleware(jar.accessToken, now)
       IN IF g.err # NoErr
            THEN /\ Receive(ErrorReply("logout", g.err, "kept", "kept"))
                 /\ UNCHANGED users
            ELSE IF dbOk
              THEN /\ users' = invalidateUserTokens(users, g.user.userId)
                   /\ Receive(Response("logout", 200, "Logout successful",
                                        "cleared", "cleared"))
              ELSE /\ UNCHANGED users
                   /\ Receive(ErrorReply("logout", PlainError("QueryFailedError"),
                                          "cleared", "cleared"))
    /\ UNCHANGED <<now, logins, refreshes, answered, everSaved, lastSaved, superseded, revoked>>
    /\ UNCHANGED <<nodeEnv, accounts>>

\* The same request of a browser whose authStore is left out of the picture.
ApiLogout(dbOk) ==
    /\ PostLogout(dbOk)
    /\ UNCHANGED <<clientVars, accountVars, unitVars>>

\* routes/index.ts (auth.routes) and auth.controller.ts 327-345: GET
\* /api/auth/me behind authMiddleware.
ApiGetMe ==
    /\ LET g == authMiddleware(jar.accessToken, now)
       IN IF g.err # NoErr
            THEN Receive(ErrorReply("me", g.err, "kept", "kept"))
            ELSE Receive([Response("me", 200, None, "kept", "kept") EXCEPT
                             !.user = g.user, !.body = g.user])
    /\ UNCHANGED <<nodeEnv, accounts>>
    /\ UNCHANGED <<clientVars, serverVars, accountVars, unitVars>>

ApiNext ==
    \/ ApiTick
    \/ \E which \in {"accessToken", "refreshToken"} : ApiTamper(which)
    \/ \E tok \in SignedTokens : ApiReplay(tok)
    \/ \E email \in Emails, pass \in LoginSecrets : ApiLogin(email, pass)
    \/ ApiRefresh
    \/ \E dbOk \in BOOLEAN : ApiLogout(dbOk)
    \/ ApiGetMe

ApiSpec == ApiInit /\ [][ApiNext]_vars

\* ---------------------------------------------------------- api: claims
\* The access cookies a request can carry: the browser's, none, a forged one.
AccessCookies == {jar.accessToken, NoAccess, ForgedAccess}
\* What a request behind authMiddleware is answered when the gate rejects
\* cookie c now (status and message of the body).
GateFailure(c) == errorHandler(authMiddleware(c, now).err, nodeEnv)
\* The gate rejects cookie c now, and with which message.
RejectedAs(c, msg) == authMiddleware(c, now).err = UnauthorizedError(msg)

\* C11 as stated: in every environment the failure delivered for an expired
\* access token differs from the failure delivered for a missing one and
\* from the failure delivered for an invalid one.
C11_ExpiredDistinguishable ==
    \A c1, c2 \in AccessCookies :
        ( /\ RejectedAs(c1, "Access token has expired")
          /\ \/ RejectedAs(c2, "Access token missing")
             \/ RejectedAs(c2, "Invalid access token") )
        => GateFailure(c1) # GateFailure(c2)

\* C14 as stated: a logout request whose access cookie passes the gate is
\* always answered 200 with both cookies cleared, whether the update of the
\* user's row succeeds or fails.
C14_LogoutAlways200 ==
    [][\A dbOk \in BOOLEAN :
         (authMiddleware(jar.accessToken, now).err = NoErr /\ ApiLogout(dbOk))
           => (reply'.status = 200 /\ reply'.access = "cleared"
                                   /\ reply'.refresh = "cleared")]_vars

Payloads == {[userId |-> k, email |-> accounts[k].email] : k \in 1..Len(accounts)}

C18_LoginFailuresAlike ==
    [][\A email \in Emails, pass \in LoginSecrets :
         ( /\ ApiLogin(email, pass)
           /\ \/ findOneByEmail(accounts, email) = NoAccount
              \/ /\ findOneByEmail(accounts, email) # NoAccount
                 /\ pass # SeedSecret )
           => /\ reply' = Response("login", 401, "Incorrect email or password",
                                    "kept", "kept")
              /\ jar' = jar]_vars

\* C20: when a logout answered 200 with both cookies cleared (its access
\* cookie, issued by a login answered 200, passed the gate) is followed by
\* GET /api/auth/me of the same browser, that request is answered 401 and
\* names no user.
C20_WhoamiAfterLogout ==
    (trail = [endpoint |-> "logout", status |-> 200] /\ reply.endpoint = "me")
      => /\ reply.status = 401
         /\ reply.user = NoPayload

\* The scenario has run: a login stored its token, the logout was answered
\* 200, and whoami was refused with the browser's cookies gone.
C20_Witness ==
    /\ everSaved # {}
    /\ trail = [endpoint |-> "logout", status |-> 200]
    /\ reply.endpoint = "me"
    /\ reply.status = 401
    /\ jar = [accessToken |-> NoAccess, refreshToken |-> NoToken]

\* The access cookies a request can carry: a token issued for an account
\* at some time, none, a forged one.
GateCookies ==
    {generateAccessToken(p, i) : p \in Payloads, i \in 0..MaxNow}
        \cup {NoAccess, ForgedAccess}
\* What the gate does now with cookie c.
GateResult(c) == authMiddleware(c, now)

RegisterSecrets == {p \in Secrets : p.text = "p"}

AccountInit ==
    /\ nodeEnv \in Envs
    /\ accounts = << >>
    /\ jar = [accessToken |-> NoAccess, refreshToken |-> NoToken]
    /\ reply = NoReply
    /\ trail = Exchange(NoReply)
    /\ registers = [k \in Registers |-> IdleRegister]
    /\ UnitIdle
    /\ ServerIdle
    /\ ClientIdle
    /\ route = "/"

\* auth.controller.ts 115-132 and auth.service.ts 58-63: POST
\* /api/auth/register; the body is validated (400 on errors), then the
\* lookup by email is awaited.
RegisterStart(k, email, pass) ==
    /\ k = FirstFree(Registers, [i \in Registers |->
                [pc |-> IF registers[i].pc \in {"idle", "done"} THEN "idle" ELSE "busy"]])
    /\ registers' = [registers EXCEPT ![k] =
          IF ValidSecret(pass)
            THEN [pc |-> "lookup", email |-> email, password |-> pass, status |-> 0,
                  body |-> MessageBody(None)]
            ELSE [pc |-> "done", email |-> email, password |-> pass, status |-> 400,
                  body |-> [message |-> "Input validation failed",
                            errors |-> "ValidationError[]"]]]
    /\ UNCHANGED <<nodeEnv, accounts, jar, reply, trail>>
    /\ UNCHANGED <<clientVars, serverVars, unitVars>>

\* auth.service.ts 63-67 and auth.controller.ts 136-142: findOneBy reads
\* the table; an existing user throws ConflictError, which the error
\* handler answers.
RegisterLookup(k) ==
    /\ registers[k].pc = "lookup"
    /\ registers' = [registers EXCEPT ![k] =
          IF findOneByEmail(accounts, @.email) # NoAccount
            THEN [@ EXCEPT !.pc = "done",
                           !.status = errorHandler(ConflictError(
                               "This email is already registered"), nodeEnv).status,
                           !.body = ErrorBody(errorHandler(ConflictError(
                               "This email is already registered"), nodeEnv))]
            ELSE [@ EXCEPT !.pc = "saving"]]
    /\ UNCHANGED <<nodeEnv, accounts, jar, reply, trail>>
    /\ UNCHANGED <<clientVars, serverVars, unitVars>>

\* auth.service.ts 70-72 and auth.controller.ts 135-142: the insert reaches
\* the database, the hook having set the password column: 201, or the
\* unique index on email rejects it and the error handler answers.
RegisterSave(k) ==
    /\ registers[k].pc = "saving"
    /\ LET q == registers[k]
       IN IF findOneByEmail(accounts, q.email) # NoAccount
            THEN /\ registers' = [registers EXCEPT ![k] =
                       [q EXCEPT !.pc = "done",
                                 !.status = errorHandler(QueryFailedError, nodeEnv).status,
                                 !.body = ErrorBody(errorHandler(QueryFailedError, nodeEnv))]]
                 /\ UNCHANGED accounts
            ELSE /\ accounts' = Append(accounts,
                       [email |-> q.email, password |-> hashPassword(q.password)])
                 /\ registers' = [registers EXCEPT ![k] =
                       [q EXCEPT !.pc = "done", !.status = 201,
                                 !.body = userWithoutSensitiveData(UserEntity(
                                     Len(accounts) + 1,
                                     [email |-> q.email, password |-> hashPassword(q.password)],
                                     EmptyRow))]]
    /\ UNCHANGED <<nodeEnv, jar, reply, trail>>
    /\ UNCHANGED <<clientVars, serverVars, unitVars>>

AccountNext ==
    \/ \E k \in Registers, email \in Emails, pass \in RegisterSecrets :
          RegisterStart(k, email, pass)
    \/ \E k \in Registers : RegisterLookup(k)
    \/ \E k \in Registers : RegisterSave(k)

AccountSpec == AccountInit /\ [][AccountNext]_vars

\* ------------------------------------------------------ account: claims
\* C13 as stated: the password column of every account a registration
\* created holds a one-way hash of the supplied secret, never the secret
\* itself.
C13_SecretHashed ==
    \A i \in 1..Len(accounts) : accounts[i].password.kind = "bcrypt"

\* The registrations answered so far that passed input validation.
AnsweredRegisters ==
    {k \in Registers : registers[k].pc = "done" /\ ValidSecret(registers[k].password)}

\* C19 as stated: no email has two accounts, and a registration that does
\* not create the account, alone or racing another one for the same email,
\* is answered 409 Conflict.
C19_LoserGetsConflict ==
    /\ \A i, j \in 1..Len(accounts) : accounts[i].email = accounts[j].email => i = j
    /\ \A k \in AnsweredRegisters : registers[k].status \in {201, 409}

\* ------------------------------------------------------- gate: actions
GateInit ==
    /\ nodeEnv \in Envs
    /\ ApiIdle
    /\ registers = [k \in Registers |-> IdleRegister]
    /\ UnitIdle
    /\ ServerIdle
    /\ ClientIdle
    /\ route = "/"

\* Time passes.
GateTick ==
    /\ now < MaxNow
    /\ now' = now + 1
    /\ UNCHANGED <<users, logins, refreshes, answered, everSaved, lastSaved, superseded, revoked>>
    /\ UNCHANGED <<clientVars, otherVars>>

\* A request for a route behind authMiddleware arrives with access cookie c
\* at a server whose public key is set or not.
GateRequest(c, publicKey) ==
    /\ gate.pc \in {"idle", "done"}
    /\ gate' = [IdleGate EXCEPT !.pc = "gate", !.cookie = c, !.publicKey = publicKey]
    /\ UNCHANGED <<clientVars, serverVars, apiVars, accountVars, storeVars, sideVars>>

\* auth.middleware.ts 38-83, then synchronously either the handler behind
\* the gate (getMe, auth.controller.ts 327-345: 200 with req.user) or the
\* global error handler (app.ts 80-120).
GateRuns ==
    /\ gate.pc = "gate"
    /\ LET g == AccessGate(gate.cookie, gate.publicKey, now)
           h == errorHandler(g.err, nodeEnv)
       IN gate' = IF g.err = NoErr
                    THEN [gate EXCEPT !.pc = "done", !.at = now, !.user = g.user,
                                      !.handlerRan = TRUE, !.status = 200]
                    ELSE [gate EXCEPT !.pc = "done", !.at = now,
                                      !.status = h.status, !.message = h.message]
    /\ UNCHANGED <<clientVars, serverVars, apiVars, accountVars, storeVars, sideVars>>

GateNext ==
    \/ GateTick
    \/ \E c \in GateCookies, publicKey \in BOOLEAN : GateRequest(c, publicKey)
    \/ GateRuns

GateSpec == GateInit /\ [][GateNext]_vars

\* -------------------------------------------------------- gate: claims
\* The cookie of the answered request was a token of the server's key,
\* unexpired when the gate ran, and the key was set.
GateVerified ==
    /\ gate.cookie # NoAccess
    /\ gate.publicKey
    /\ gate.cookie.sig = "RS256"
    /\ gate.at < gate.cookie.iat + AccessTtl

\* C22: the handler behind the gate runs exactly when the access cookie
\* verified, and then req.user carries the token's userId and email; a
\* request without the cookie is answered 401 (in development with
\* 'Access token missing'); a request with a cookie at a server without
\* public key is answered with an error that is not 401; on every failure
\* the handler is not run and req.user is not set.
C22_GatePassesOnlyVerified ==
    gate.pc = "done" =>
        /\ gate.handlerRan <=> GateVerified
        /\ GateVerified =>
              /\ gate.user = [userId |-> gate.cookie.userId, email |-> gate.cookie.email]
              /\ gate.status = 200
        /\ gate.cookie = NoAccess =>
              /\ gate.status = 401
              /\ nodeEnv = "development" => gate.message = "Access token missing"
        /\ (gate.cookie # NoAccess /\ ~gate.publicKey) => gate.status = 500
        /\ ~GateVerified => gate.user = NoPayload /\ gate.status # 200

\* A request with an unexpired token of the server's key was refused with
\* 500 because the public key is not set.
C22_Witness ==
    /\ gate.pc = "done"
    /\ ~gate.publicKey
    /\ gate.cookie.sig = "RS256"
    /\ gate.at < gate.cookie.iat + AccessTtl
    /\ gate.status = 500
    /\ ~gate.handlerRan

\* ------------------------------------------------------ store: actions
\* The call slot that carries GET /auth/me of checkAuthStatus and POST
\* /auth/login of loginAction; the identity the server returns.
StoreCall == 1
Identity == "u1"

\* The slot of one other call that a mounted page makes beside the login.
OtherCall == 2

\* A catch block that takes every failure for a logged-out session.
HydrateClearsAlways(status) == TRUE

\* authStore checkAuthStatus 310: err.response?.status === 401.
HydrateClearsUser(status) == status = 401

\* authStore loginAction 338-339: err.response?.data?.message or the default
\* text; never null.
LoginErrorText(o) ==
    IF o.by = "refresh" THEN "Refresh token is invalid or expired"
    ELSE IF o.status = 401 THEN "Incorrect email or password"
    ELSE "Login failed. Please check your credentials."

\* The page is loaded: no user in memory, the cached user of an earlier
\* visit or none, the router not yet installed.
StoreInit ==
    /\ isRefreshing = FALSE
    /\ failedQueue = <<>>
    /\ user = None
    /\ cache \in {None, Identity}
    /\ route = "/"
    /\ pc = [c \in Calls |-> "idle"]
    /\ retry = [c \in Calls |-> FALSE]
    /\ resp = [c \in Calls |-> NoResp]
    /\ outcome = [c \in Calls |-> NoError]
    /\ replays = [c \in Calls |-> 0]
    /\ refreshCalls = 0
    /\ caught = [c \in Calls |-> NoError]
    /\ logoutPc = "idle"
    /\ hist = IdleHist
    /\ ServerIdle
    /\ OtherIdle

\* The action sends its call through apiClient in a fresh request.
StoreSend ==
    /\ pc' = [pc EXCEPT ![StoreCall] = "sent"]
    /\ retry' = [retry EXCEPT ![StoreCall] = FALSE]
    /\ resp' = [resp EXCEPT ![StoreCall] = NoResp]
    /\ outcome' = [outcome EXCEPT ![StoreCall] = NoError]
    /\ replays' = [replays EXCEPT ![StoreCall] = 0]
    /\ hist' = [hist EXCEPT !.batch = @ /\ (\A d \in DOMAIN resp : resp[d] = NoResp)]

\* main.ts 33 and authStore checkAuthStatus 284-301: the user is restored
\* from sessionStorage, loading is set, GET /auth/me is awaited.
HydrateStart ==
    /\ store.hydrate = "idle"
    /\ user' = IF cache # None THEN cache ELSE user
    /\ store' = [store EXCEPT !.hydrate = "awaiting", !.loading = TRUE]
    /\ StoreSend
    /\ UNCHANGED <<isRefreshing, failedQueue, cache, route, refreshCalls, caught, logoutPc>>
    /\ UNCHANGED <<serverVars, apiVars, accountVars, gateVars, sideVars>>

\* authStore checkAuthStatus 301-318: the awaited call settled; setUser of
\* the response, or the catch block, then the finally block.
HydrateSettles ==
    /\ store.hydrate = "awaiting"
    /\ pc[StoreCall] \in {"ok", "failed"}
    /\ LET o == outcome[StoreCall]
       IN IF o = Fulfilled
            THEN /\ user' = Identity
                 /\ cache' = Identity
                 /\ store' = [store EXCEPT !.hydrate = "done", !.loading = FALSE]
          ELSE IF HydrateClearsUser(o.status)
            THEN /\ user' = None
                 /\ cache' = None
                 /\ store' = [store EXCEPT !.hydrate = "done", !.loading = FALSE]
          ELSE /\ UNCHANGED <<user, cache>>
               /\ store' = [store EXCEPT !.hydrate = "done", !.loading = FALSE,
                                          !.error = "Unable to verify login status"]
    /\ UNCHANGED <<isRefreshing, failedQueue, route, pc, retry, resp, outcome, replays,
                   refreshCalls, caught, logoutPc, hist>>
    /\ UNCHANGED <<serverVars, apiVars, accountVars, gateVars, sideVars>>

\* main.ts 45-52: the router is installed and the application mounted; the
\* first navigation ends on the home page or on the login page.
Mount ==
    /\ store.hydrate = "done"
    /\ store' = [store EXCEPT !.hydrate = "mounted"]
    /\ route' \in {"/", "/login"}
    /\ UNCHANGED <<isRefreshing, failedQueue, user, cache, pc, retry, resp, outcome,
                   replays, refreshCalls, caught, logoutPc, hist>>
    /\ UNCHANGED <<serverVars, apiVars, accountVars, gateVars, sideVars>>

\* authStore loginAction 326-330: clearError, loading, POST /auth/login is
\* awaited.
LoginStart ==
    /\ store.hydrate = "mounted"
    /\ store.login = "idle"
    /\ pc[StoreCall] \in {"idle", "ok", "failed"}
    /\ store' = [store EXCEPT !.login = "awaiting", !.loading = TRUE, !.error = None]
    /\ StoreSend
    /\ UNCHANGED <<isRefreshing, failedQueue, user, cache, route, refreshCalls,
                   caught, logoutPc>>
    /\ UNCHANGED <<serverVars, apiVars, accountVars, gateVars, sideVars>>

\* authStore loginAction 331-345: the awaited call settled.  Fulfilled:
\* setUser of the response, then router.push is awaited.  Rejected: the
\* catch block records the error and clears the user, then the finally
\* block.
LoginSettles ==
    /\ store.login = "awaiting"
    /\ pc[StoreCall] \in {"ok", "failed"}
    /\ LET o == outcome[StoreCall]
       IN IF o = Fulfilled
            THEN /\ user' = Identity
                 /\ cache' = Identity
                 /\ store' = [store EXCEPT !.login = "nav"]
            ELSE /\ user' = None
                 /\ cache' = None
                 /\ store' = [store EXCEPT !.login = "done", !.loading = FALSE,
                                            !.error = LoginErrorText(o)]
    /\ UNCHANGED <<isRefreshing, failedQueue, route, pc, retry, resp, outcome, replays,
                   refreshCalls, caught, logoutPc, hist>>
    /\ UNCHANGED <<serverVars, apiVars, accountVars, gateVars, sideVars>>

\* authStore loginAction 334-345: the awaited router.push(redirectPath) is
\* inside the try block.  Done: loginAction returns true after its finally
\* block.  Rejected (a guard or the loading of a lazy route component
\* failed): the catch block records the default error and clears the user.
LoginNavigated(done) ==
    /\ store.login = "nav"
    /\ IF done
         THEN /\ route' = "/"
              /\ store' = [store EXCEPT !.login = "done", !.loading = FALSE]
              /\ UNCHANGED <<user, cache>>
         ELSE /\ user' = None
              /\ cache' = None
              /\ store' = [store EXCEPT !.login = "done", !.loading = FALSE,
                                         !.error = LoginErrorText(NoError)]
              /\ UNCHANGED route
    /\ UNCHANGED <<isRefreshing, failedQueue, pc, retry, resp, outcome,
                   replays, refreshCalls, caught, logoutPc, hist>>
    /\ UNCHANGED <<serverVars, apiVars, accountVars, gateVars, sideVars>>

StoreNext ==
    \/ HydrateStart
    \/ HydrateSettles
    \/ Mount
    \/ LoginStart
    \/ LoginSettles
    \/ \E done \in BOOLEAN : LoginNavigated(done)
    \/ store.hydrate = "mounted" /\ Send(OtherCall)
    \/ \E c \in Calls, r \in Responses : Respond(c, r)
    \/ \E c \in Calls : RefreshSucceeds(c)
    \/ \E c \in Calls, st \in RefreshFailures : RefreshFails(c, st)
    \/ \E c \in Calls, st \in LogoutStatuses : ForcedLogoutResponds(c, st)
    \/ \E c \in Calls : ForcedLogoutNavigated(c)

StoreSpec == StoreInit /\ [][StoreNext]_vars

\* ------------------------------------------------------- store: claims
\* checkAuthStatus ends in this step.
HydrateEnds == store.hydrate = "awaiting" /\ store'.hydrate = "done"

\* C23: when checkAuthStatus ends, loading is false and: if the awaited
\* whoami call was fulfilled the user is set and cached; if it was rejected
\* with status 401 the user and the cached user are cleared and no error is
\* recorded; if it was rejected otherwise, the error 'Unable to verify login
\* status' is recorded and user and cache are left as they were.  A call
\* whose 401 led to a failed refresh ends with no user either way.
C23_HydrateOutcomes ==
    [][HydrateEnds =>
         LET o == outcome[StoreCall]
         IN /\ store'.loading = FALSE
            /\ o = Fulfilled =>
                  user' = Identity /\ cache' = Identity /\ store'.error = store.error
            /\ (o # Fulfilled /\ o.status = 401) =>
                  user' = None /\ cache' = None /\ store'.error = store.error
            /\ (o # Fulfilled /\ o.status # 401) =>
                  /\ store'.error = "Unable to verify login status"
                  /\ user' = user
                  /\ cache' = cache
            /\ o.by = "refresh" => user' = None /\ cache' = None]_vars

\* checkAuthStatus has ended after a 500 of the whoami call: the error is
\* recorded and the user restored from the cache is still set.
C23_Witness ==
    /\ store.hydrate = "done"
    /\ outcome[StoreCall] = OwnError(500)
    /\ store.error = "Unable to verify login status"
    /\ user = Identity

\* loginAction begins, and loginAction ends, in this step.
LoginBegins == store.login = "idle" /\ store'.login = "awaiting"
LoginEnds == store.login # "done" /\ store'.login = "done"

\* C24: loginAction sets loading and clears the error when it sends the
\* login call; when it ends loading is false, and the user is the identity
\* the server returned if the login call was fulfilled, or there is no user
\* and an error is recorded if the call was rejected.
C24_LoginOutcomes ==
    [][/\ LoginBegins => store'.loading /\ store'.error = None
       /\ LoginEnds =>
             /\ ~store'.loading
             /\ IF outcome[StoreCall] = Fulfilled
                  THEN user' = Identity /\ cache' = Identity
                  ELSE user' = None /\ cache' = None /\ store'.error # None]_vars

\* ----------------------------------------------------- signup: actions
\* Registration followed by login: the email that registers (its account
\* takes the first row of the users table) and the requests of a browser.
SignupEmail == "a@x.com"
\* The passwords it tries: one too short, one that passes validation.
SignupSecrets == {p \in RegisterSecrets : p.len <= MinSecretLen}

SignupNext ==
    \/ \E k \in Registers, pass \in SignupSecrets : RegisterStart(k, SignupEmail, pass)
    \/ \E k \in Registers : RegisterLookup(k)
    \/ \E k \in Registers : RegisterSave(k)
    \/ \E email \in Emails, pass \in LoginSecrets : ApiLogin(email, pass)
    \/ ApiTick

SignupSpec == AccountInit /\ [][SignupNext]_vars

\* ------------------------------------------------------ signup: claims
\* C25: no body that login or register sends has a password, refreshToken
\* or refreshTokenExpiresAt member; the body of a successful login or
\* registration carries the account's id and email; the refresh token of a
\* response is carried by its refreshToken cookie only.
C25_BodiesSanitized ==
    /\ reply.endpoint = "login" =>
          /\ DOMAIN reply.body \cap SensitiveColumns = {}
          /\ reply.status = 200 =>
                /\ reply.body.id = reply.user.userId
                /\ reply.body.email = reply.user.email
          /\ reply.refreshToken # NoToken => reply.refresh = "set"
    /\ \A k \in Registers : registers[k].pc = "done" =>
          /\ DOMAIN registers[k].body \cap SensitiveColumns = {}
          /\ registers[k].status = 201 =>
                /\ registers[k].body.id = findOneByEmail(accounts, registers[k].email).id
                /\ registers[k].body.email = registers[k].email

\* A registration was answered 201 and a login of that account 200, with
\* its refresh token stored in the row and set as cookie.
C25_Witness ==
    /\ \E k \in Registers : registers[k].status = 201
    /\ reply.endpoint = "login"
    /\ reply.status = 200
    /\ reply.refreshToken # NoToken
    /\ users[1].refreshToken = reply.refreshToken
    /\ jar.refreshToken = reply.refreshToken

\* ---------------------------------------------- server: claims, continued
\* C26: for every table the server reaches and every account id (one
\* without a row included), invalidateUserTokens leaves the account's record
\* empty and every other row as it was; applied to a table whose record is
\* already empty it changes nothing, and applied twice it gives the same
\* table as applied once.
C26_InvalidateIdempotent ==
    \A id \in UserIds \cup {GhostToken.sub} :
        LET once == invalidateUserTokens(users, id)
            twice == invalidateUserTokens(once, id)
        IN /\ DOMAIN once = DOMAIN users
           /\ \A other \in DOMAIN users :
                 once[other] = IF other = id THEN EmptyRow ELSE users[other]
           /\ findOneById(users, id) \in {EmptyRow, NoRow} => once = users
           /\ twice = once

\* A logout has emptied the record a login had filled (no reuse detection
\* cleared it), so a further logout finds it empty.
C26_Witness ==
    /\ users[1] = EmptyRow
    /\ lastSaved[1] # NoToken
    /\ ~revoked[1]

\* ------------------------------------------------------ queue: actions
\* The gateway with one call more than the other client specifications
\* have, so that two calls can wait behind the leader of a refresh.
QueueCalls == 1..(NumCalls + 1)

\* The answers of the server in this scenario: 200 or 401, token expired.
QueueResponses == {Ok200, Unauthorized("expired")}

QueueInit ==
    /\ isRefreshing = FALSE
    /\ failedQueue = <<>>
    /\ user = Identity
    /\ cache = Identity
    /\ route = "/patients"
    /\ pc = [c \in QueueCalls |-> "idle"]
    /\ retry = [c \in QueueCalls |-> FALSE]
    /\ resp = [c \in QueueCalls |-> NoResp]
    /\ outcome = [c \in QueueCalls |-> NoError]
    /\ replays = [c \in QueueCalls |-> 0]
    /\ refreshCalls = 0
    /\ caught = [c \in QueueCalls |-> NoError]
    /\ logoutPc = "idle"
    /\ hist = IdleHist
    /\ ServerIdle
    /\ OtherIdle

QueueNext ==
    \/ \E c \in QueueCalls : Send(c)
    \/ \E c \in QueueCalls, r \in QueueResponses : Respond(c, r)
    \/ \E c \in QueueCalls : RefreshSucceeds(c)
    \/ \E c \in QueueCalls, st \in RefreshFailures : RefreshFails(c, st)
    \/ \E c \in QueueCalls, st \in LogoutStatuses : ForcedLogoutResponds(c, st)
    \/ \E c \in QueueCalls : ForcedLogoutNavigated(c)

QueueSpec == QueueInit /\ [][QueueNext]_vars

\* ------------------------------------------------------- queue: claims
\* The refresh of leading call c succeeds in this step.
RefreshSucceeded(c) == pc[c] = "leading" /\ pc'[c] = "resent"

\* C27: when a refresh succeeds, the waiting calls are released for replay
\* in the order of the wait-list, which is the order in which their 401
\* responses arrived; each released call is re-sent and the wait-list is
\* left empty.
C27_ReleasedInEnqueueOrder ==
    [][\A c \in QueueCalls : RefreshSucceeded(c) =>
          /\ hist'.released = failedQueue
          /\ \A i \in 1..Len(failedQueue) :
                /\ pc'[failedQueue[i]] = "resent"
                /\ replays'[failedQueue[i]] = replays[failedQueue[i]] + 1
          /\ failedQueue' = <<>>]_vars

\* A refresh has succeeded with two calls on the wait-list, enqueued against
\* the order in which they were sent, and both were re-sent.
C27_Witness ==
    /\ Len(hist.released) = 2
    /\ hist.released[1] > hist.released[2]
    /\ \A i \in 1..2 : pc[hist.released[i]] = "resent"

\* ---------------------------------------------------- refresh: fairness
\* How POST /auth/refresh can fail: answered 403 or 401, or not answered
\* within the timeout of apiClient (0, no response).
RefreshSettlements == RefreshFailures \cup {0}

RefreshNext ==
    \/ ClientNext
    \/ \E c \in Calls : RefreshFails(c, 0)

\* Every request of apiClient settles (apiClient.ts 40: timeout 10000): the
\* refresh call, and the POST /auth/logout of the forced logout; the
\* navigation to the eagerly loaded home page settles too.
RefreshFairSpec ==
    /\ ClientInit
    /\ [][RefreshNext]_vars
    /\ WF_vars(\E c \in Calls : \/ RefreshSucceeds(c)
                                 \/ \E st \in RefreshSettlements : RefreshFails(c, st))
    /\ WF_vars(\E c \in Calls, st \in LogoutStatuses : ForcedLogoutResponds(c, st))
    /\ WF_vars(\E c \in Calls : ForcedLogoutNavigated(c))

\* C28: whenever isRefreshing is true it is false again later, whether the
\* refresh call succeeds, is answered with a failure or is not answered
\* within the timeout.
C28_FlagEventuallyCleared == isRefreshing ~> ~isRefreshing

\* A refresh call got no response, the forced logout ran, and the flag is
\* false again.
C28_Witness ==
    /\ ~isRefreshing
    /\ \E c \in Calls : pc[c] = "failed" /\ caught[c] = RefreshError(0)

\* ---------------------------------------------- client: claims, continued
\* Call c is answered 401 in this step.
Answered401(c) ==
    /\ pc[c] \in {"sent", "resent"}
    /\ pc'[c] # pc[c]
    /\ resp'[c].status = 401

\* C29 as stated: once logoutAction has been invoked, also while its POST
\* /auth/logout is pending, there is no user, and a call that is answered
\* 401 is rejected to its caller with that 401, no refresh request is
\* started and the wait-list is left as it was.
C29_LogoutFailsFast ==
    [][logoutPc # "idle" =>
         /\ user = None
         /\ \A c \in Calls : Answered401(c) =>
               /\ pc'[c] = "failed"
               /\ outcome'[c] = OwnError(401)
               /\ refreshCalls' = refreshCalls
               /\ failedQueue' = failedQueue]_vars

\* The user's logoutAction was invoked while the refresh request that is
\* now in flight was in flight.
LogoutSupersedes == isRefreshing /\ refreshCalls > 0 /\ hist.logoutAt = refreshCalls

\* C30 as stated: when logout was invoked while a refresh request was in
\* flight and that refresh succeeds, no waiting call is replayed, the call
\* that triggered the refresh is not retried, and there is no user after it.
C30_SupersededRefreshDiscarded ==
    [][\A c \in Calls : (LogoutSupersedes /\ RefreshSucceeded(c)) =>
          /\ replays' = replays
          /\ \A d \in Calls : pc'[d] = "resent" => pc[d] = "resent"
          /\ user' = None]_vars

\* ------------------------------------------------- api: claims, continued
\* C31: a refresh request answered 200 leaves the users table and the
\* browser's refreshToken cookie as they were and sets the accessToken
\* cookie only; the same refresh token is accepted again right after it.
C31_RefreshKeepsSession ==
    [][(ApiRefresh /\ reply'.status = 200) =>
         /\ users' = users
         /\ jar'.refreshToken = jar.refreshToken
         /\ reply'.refresh = "kept"
         /\ reply'.access = "set"
         /\ jar'.accessToken = reply'.accessToken
         /\ reply'.accessToken # NoAccess
         /\ validateRefreshToken(users', jar'.refreshToken, now').userId
               = jar.refreshToken.sub]_vars

\* Two refresh requests in a row were answered 200 with the same refresh
\* token, which is still the stored one.
C31_Witness ==
    /\ trail = [endpoint |-> "refresh", status |-> 200]
    /\ reply.endpoint = "refresh"
    /\ reply.status = 200
    /\ jar.refreshToken # NoToken
    /\ users[jar.refreshToken.sub].refreshToken = jar.refreshToken

\* ---------------------------------------------- server: claims, continued
\* C32 as stated: when the reuse-detection clear of a refresh request
\* reaches the database, the record it removes is the one the request read
\* and found to differ from its token (or the record is empty already),
\* never one that a login saved after the lookup.
C32_ClearRemovesObserved ==
    [][\A r \in Refreshes : Cleared(r) =>
          findOneById(users, refreshes[r].token.sub) \in {refreshes[r].snap, EmptyRow}]_vars

\* ------------------------------------------------------- routes: data
\* The methods and the paths (as segments) of the requests considered.
Methods == {"GET", "POST", "PUT", "DELETE"}
Paths == {<<>>, <<"7">>, <<"api">>, <<"api", "health">>,
          <<"api", "auth", "me">>, <<"api", "auth", "logout">>, <<"api", "auth", "login">>,
          <<"api", "patients">>, <<"api", "patients", "7">>,
          <<"api", "patients", "7", "fhir">>, <<"api", "patients", "7", "push-to-fhir">>,
          <<"api", "patients", "7", "x">>}

\* A layer of a router's stack: router.METHOD(path, [authMiddleware,] handler)
\* or router.use(path, [authMiddleware,] subRouter).
Route(method, path, gated, handler) ==
    [kind |-> "route", method |-> method, path |-> path, gated |-> gated,
     handler |-> handler, stack |-> <<>>]
Use(path, gated, stack) ==
    [kind |-> "use", method |-> None, path |-> path, gated |-> gated,
     handler |-> None, stack |-> stack]

\* routes/patient.routes.ts 13-56.
patientRouter ==
    << Route("GET", <<>>, FALSE, "getAllPatients"),
       Route("POST", <<>>, FALSE, "createPatient"),
       Route("GET", <<":id">>, FALSE, "getPatientById"),
       Route("PUT", <<":id">>, FALSE, "updatePatient"),
       Route("DELETE", <<":id">>, FALSE, "deletePatient"),
       Route("GET", <<":id", "fhir">>, FALSE, "getPatientAsFhir"),
       Route("POST", <<":id", "push-to-fhir">>, FALSE, "pushPatientToFhir") >>

\* routes/auth.routes.ts: register, login and refresh without the gate,
\* logout and me behind it.
authRouter ==
    << Route("POST", <<"register">>, FALSE, "register"),
       Route("POST", <<"login">>, FALSE, "login"),
       Route("POST", <<"refresh">>, FALSE, "refresh"),
       Route("POST", <<"logout">>, TRUE, "logout"),
       Route("GET", <<"me">>, TRUE, "getMe") >>

\* routes/index.ts 16-36, in the order of registration; app.ts 70 mounts
\* this router at the root.
mainRouter ==
    << Route("GET", <<"api", "health">>, FALSE, "health"),
       Use(<<"api", "auth">>, FALSE, authRouter),
       Use(<<"api", "patients">>, TRUE, patientRouter),
       Route("GET", <<>>, FALSE, "getAllPatients"),
       Route("POST", <<>>, FALSE, "createPatient"),
       Route("GET", <<":id">>, FALSE, "getPatientById"),
       Route("PUT", <<":id">>, FALSE, "updatePatient"),
       Route("DELETE", <<":id">>, FALSE, "deletePatient"),
       Route("GET", <<"api">>, FALSE, "running") >>

\* The handlers that read or modify patient records.
PatientHandlers ==
    {"getAllPatients", "createPatient", "getPatientById", "updatePatient",
     "deletePatient", "getPatientAsFhir", "pushPatientToFhir"}

\* Express matches a route's path segment by segment, a parameter (:id)
\* matching any one segment; a mounted router matches a prefix and sees
\* the rest of the path.
MatchesPath(pattern, path) ==
    /\ Len(pattern) = Len(path)
    /\ \A i \in 1..Len(path) : pattern[i] = ":id" \/ pattern[i] = path[i]
MatchesPrefix(prefix, path) ==
    /\ Len(prefix) <= Len(path)
    /\ SubSeq(path, 1, Len(prefix)) = prefix
RestOfPath(prefix, path) == SubSeq(path, Len(prefix) + 1, Len(path))

\* The first route of a router's stack that takes the request, 0 when no
\* route does and the router calls next().
FirstRoute(stack, method, path) ==
    LET hits == {i \in 1..Len(stack) :
                    stack[i].method = method /\ MatchesPath(stack[i].path, path)}
    IN IF hits = {} THEN 0 ELSE CHOOSE i \in hits : \A j \in hits : i <= j

\* What a request ends with: the handler that ran (gated when authMiddleware
\* ran before it), the global error handler, or the 404 handler of app.ts.
Handled200(handler, gated) == [handler |-> handler, gated |-> gated, status |-> 200]
GateRefused(err, env) ==
    [handler |-> None, gated |-> TRUE, status |-> errorHandler(err, env).status]
NotFound == [handler |-> None, gated |-> FALSE, status |-> 404]

\* A route that took the request: authMiddleware first when the route or
\* the mount names it, then the handler.
RunRoute(r, mountGated, cookie, t, env) ==
    LET g == authMiddleware(cookie, t)
    IN IF (r.gated /\ ~mountGated) /\ g.err # NoErr THEN GateRefused(g.err, env)
       ELSE Handled200(r.handler, r.gated \/ mountGated)

\* The main router with a request, from layer i on: each layer in the
\* order of registration; a mounted router whose routes do not take the
\* request hands it on to the next layer; past the last layer app.ts
\* 128-134 answers 404.
RECURSIVE DispatchFrom(_, _, _, _, _, _)
DispatchFrom(i, method, path, cookie, t, env) ==
    IF i > Len(mainRouter) THEN NotFound
    ELSE LET l == mainRouter[i]
             g == authMiddleware(cookie, t)
             rest == RestOfPath(l.path, path)
             j == FirstRoute(l.stack, method, rest)
         IN IF l.kind = "route"
              THEN IF l.method = method /\ MatchesPath(l.path, path)
                     THEN RunRoute(l, FALSE, cookie, t, env)
                     ELSE DispatchFrom(i + 1, method, path, cookie, t, env)
            ELSE IF ~MatchesPrefix(l.path, path)
              THEN DispatchFrom(i + 1, method, path, cookie, t, env)
            ELSE IF l.gated /\ g.err # NoErr THEN GateRefused(g.err, env)
            ELSE IF j = 0 THEN DispatchFrom(i + 1, method, path, cookie, t, env)
            ELSE RunRoute(l.stack[j], l.gated, cookie, t, env)

\* ----------------------------------------------------- routes: actions
\* The access cookies of the requests: none, a forged one, the token issued
\* to the first account at time 0 (it expires while the clock runs).
RouteCookies == {NoAccess, ForgedAccess, generateAccessToken([userId |-> 1, email |-> "a@x.com"], 0)}

RouteInit == GateInit

\* A request with access cookie c goes through the main router.
RouteRequest(method, path, c) ==
    /\ LET d == DispatchFrom(1, method, path, c, now, nodeEnv)
       IN dispatch' = [method |-> method, path |-> path, cookie |-> c, at |-> now,
                       handler |-> d.handler, gated |-> d.gated, status |-> d.status]
    /\ UNCHANGED <<clientVars, serverVars, apiVars, accountVars, gateVars, storeVars, codecVars>>

RouteNext ==
    \/ GateTick
    \/ \E method \in Methods, path \in Paths, c \in RouteCookies : RouteRequest(method, path, c)

RouteSpec == RouteInit /\ [][RouteNext]_vars

\* ------------------------------------------------------ routes: claims
\* The access cookie of the dispatched request verified at the gate when the
\* request was dispatched.
DispatchVerified == authMiddleware(dispatch.cookie, dispatch.at).err = NoErr

\* C33 as stated: whatever the method and the path, a handler that reads or
\* modifies patient records runs only after authMiddleware ran on the route
\* and only for a request whose access cookie verified.
C33_PatientHandlersGated ==
    dispatch.handler \in PatientHandlers => dispatch.gated /\ DispatchVerified

\* -------------------------------------------------------- codec: data
\* An option given to jwt.sign or jwt.verify: a configured value, or
\* NotPassed when the call does not name the option (the audience of a
\* refresh token, auth.service.ts 162 and 238).
NotPassed == "not passed"

\* jwt.sign puts a claim into the token for an option that is passed and
\* defined, the empty string included.
ClaimOf(opt) == IF opt \in {Undefined, NotPassed} THEN None ELSE opt

\* jwt.sign(payload, privateKey, {RS256, expiresIn, issuer[, audience]}).
\* Whether the library refuses an option that is passed as undefined is
\* not fixed by this repository: strict tells which of the two it does.
\* NoJwt: the call threw.
jwtSign(payload, t, ttl, issuer, audience, strict) ==
    IF strict /\ (issuer = Undefined \/ audience = Undefined) THEN NoJwt
    ELSE [userId |-> payload.userId, email |-> payload.email, iat |-> t, exp |-> t + ttl,
          iss |-> ClaimOf(issuer), aud |-> ClaimOf(audience), sig |-> "RS256"]

\* jwt.verify compares a claim only for an option that is passed and
\* truthy.
Compared(opt) == opt \notin {Undefined, NotPassed, ""}

\* jwt.verify(token, publicKey, {RS256, issuer[, audience]}): signature,
\* expiry, audience, issuer.
jwtVerifyClaims(tok, t, issuer, audience) ==
    IF tok.sig # "RS256" THEN "JsonWebTokenError"
    ELSE IF t >= tok.exp THEN "TokenExpiredError"
    ELSE IF Compared(audience) /\ tok.aud # audience THEN "JsonWebTokenError"
    ELSE IF Compared(issuer) /\ tok.iss # issuer THEN "JsonWebTokenError"
    ELSE "ok"

\* auth.service.ts 118-130: the access token, with issuer and audience of
\* the configuration.
accessJwt(cfg, payload, t) ==
    jwtSign(payload, t, AccessTtl, cfg.issuer, cfg.audience, cfg.strictSign)
\* auth.service.ts 153-163: the refresh token, with the issuer only.
refreshJwt(cfg, payload, t) ==
    jwtSign(payload, t, RefreshTtl, cfg.issuer, NotPassed, cfg.strictSign)
\* auth.middleware.ts 55-61: the gate verifies issuer and audience.
gateVerify(cfg, tok, t) == jwtVerifyClaims(tok, t, cfg.issuer, cfg.audience)
\* auth.service.ts 235-239: validateRefreshToken verifies the issuer only.
refreshVerify(cfg, tok, t) == jwtVerifyClaims(tok, t, cfg.issuer, NotPassed)

\* The account the codec's login is for.
CodecPayload == [userId |-> 1, email |-> "a@x.com"]
\* The kinds of credential one login issues.
CredentialKinds == {"access", "refresh"}

\* ----------------------------------------------------- codec: actions
\* The server starts with some configuration of issuer and audience.
CodecInit ==
    /\ nodeEnv \in Envs
    /\ ApiIdle
    /\ registers = [k \in Registers |-> IdleRegister]
    /\ gate = IdleGate
    /\ store = IdleStore
    /\ dispatch = IdleDispatch
    /\ \E i \in IssuerConfigs, a \in AudienceConfigs, strict \in BOOLEAN :
          codec = [IdleCodec EXCEPT !.issuer = i, !.audience = a, !.strictSign = strict]
    /\ ServerIdle
    /\ ClientIdle
    /\ route = "/"

\* auth.service.ts 187-210 (login): the access token is signed, then the
\* refresh token is signed and saved; a throwing jwt.sign ends the request
\* with 500 before anything is saved.
CodecLogin ==
    /\ LET a == accessJwt(codec, CodecPayload, now)
           r == refreshJwt(codec, CodecPayload, now)
       IN codec' = IF a = NoJwt \/ r = NoJwt
                     THEN [codec EXCEPT !.channel = "login", !.kind = None, !.at = now,
                                        !.status = 500, !.newAccess = NoJwt]
                     ELSE [codec EXCEPT !.access = a, !.refresh = r, !.stored = r,
                                        !.channel = "login", !.kind = None, !.at = now,
                                        !.status = 200, !.newAccess = NoJwt]
    /\ UNCHANGED <<clientVars, serverVars, apiVars, accountVars, gateVars, storeVars, routeVars>>

\* A request for a route behind authMiddleware whose accessToken cookie
\* holds the issued credential of kind k.
CodecGate(k) ==
    /\ codec[k] # NoJwt
    /\ codec' = [codec EXCEPT !.channel = "access", !.kind = k, !.at = now,
                              !.status = IF gateVerify(codec, codec[k], now) = "ok"
                                           THEN 200 ELSE 401,
                              !.newAccess = NoJwt]
    /\ UNCHANGED <<clientVars, serverVars, apiVars, accountVars, gateVars, storeVars, routeVars>>

\* POST /auth/refresh whose refreshToken cookie holds the issued credential
\* of kind k: auth.controller.ts 200-266 with validateRefreshToken
\* (auth.service.ts 226-275): verify, compare with the stored token and its
\* expiry, clear the stored token when a different one is stored, and on
\* success sign a new access token.
CodecRefresh(k) ==
    /\ codec[k] # NoJwt
    /\ LET tok == codec[k]
           verified == refreshVerify(codec, tok, now) = "ok"
           fails == codec.stored # tok \/ codec.stored.exp <= now
           reuse == codec.stored # NoJwt /\ codec.stored # tok
           a == accessJwt(codec, CodecPayload, now)
       IN codec' =
            IF ~verified
              THEN [codec EXCEPT !.channel = "refresh", !.kind = k, !.at = now,
                                 !.status = 403, !.newAccess = NoJwt]
            ELSE IF fails
              THEN [codec EXCEPT !.channel = "refresh", !.kind = k, !.at = now,
                                 !.status = 403, !.newAccess = NoJwt,
                                 !.stored = IF reuse THEN NoJwt ELSE @]
            ELSE IF a = NoJwt
              THEN [codec EXCEPT !.channel = "refresh", !.kind = k, !.at = now,
                                 !.status = 500, !.newAccess = NoJwt]
            ELSE [codec EXCEPT !.channel = "refresh", !.kind = k, !.at = now,
                               !.status = 200, !.newAccess = a, !.access = a]
    /\ UNCHANGED <<clientVars, serverVars, apiVars, accountVars, gateVars, storeVars, routeVars>>

CodecNext ==
    \/ GateTick
    \/ CodecLogin
    \/ \E k \in CredentialKinds : CodecGate(k)
    \/ \E k \in CredentialKinds : CodecRefresh(k)

CodecSpec == CodecInit /\ [][CodecNext]_vars

\* ------------------------------------------------------ codec: claims
\* C34 as stated: under every configuration of issuer and audience, a
\* refresh credential presented in the accessToken cookie is not accepted by
\* the gate, and an access credential presented in the refreshToken cookie
\* does not yield a new access credential.
C34_KindsNotInterchangeable ==
    /\ (codec.channel = "access" /\ codec.kind = "refresh") => codec.status # 200
    /\ (codec.channel = "refresh" /\ codec.kind = "access") =>
          codec.status # 200 /\ codec.newAccess = NoJwt

LoggedOut(id) ==
    /\ findOneById(users, id) = EmptyRow
    /\ ~revoked[id]
    /\ lastSaved[id] # NoToken

\* C36 as stated: once a logout has emptied an account's record, no refresh
\* request of that account is answered with the user (200 and a new access
\* token) before the next login, even one whose validation started before
\* the logout.
C36_NoRefreshAfterLogout ==
    [][\A r \in Refreshes :
          (Decides(r) /\ answered'.returned = "user"
                      /\ answered'.token = refreshes[r].token) =>
              ~LoggedOut(refreshes[r].token.sub)]_vars

\* ---------------------------------------------- client: claims, continued
\* C37 as stated: whenever no refresh is in flight (isRefreshing is false)
\* failedQueue is empty.
C37_IdleQueueEmpty ==
    ~isRefreshing => failedQueue = <<>>

\* ---------------------------------------------------- session: actions
\* The authStore of a browser and the server's auth endpoints together: the
\* user's logoutAction sends POST /auth/logout with the browser's cookies
\* and gets the server's answer.
SessionInit ==
    /\ nodeEnv \in Envs
    /\ ApiIdle
    /\ registers = [k \in Registers |-> IdleRegister]
    /\ UnitIdle
    /\ ServerIdle
    /\ ClientIdle
    /\ route \in {"/", "/patients"}

\* POST /auth/logout of logoutAction is handled by the server and its
\* answer settles the call that logoutAction awaits.
SessionLogout(dbOk) ==
    /\ logoutPc = "api"
    /\ PostLogout(dbOk)
    /\ logoutAnswered(reply'.status)
    /\ UNCHANGED <<accountVars, gateVars, sideVars>>

SessionNext ==
    \/ ApiTick
    \/ \E email \in Emails, pass \in LoginSecrets : ApiLogin(email, pass)
    \/ ApiRefresh
    \/ ApiGetMe
    \/ LogoutStart
    \/ \E dbOk \in BOOLEAN : SessionLogout(dbOk)
    \/ LogoutNavigated

SessionSpec == SessionInit /\ [][SessionNext]_vars

\* ----------------------------------------------------- session: claims
\* The gate refuses the browser's access cookie now: it is missing, not of
\* the server's key, or expired.
GateRefusesJar ==
    \/ jar.accessToken = NoAccess
    \/ jar.accessToken.sig # "RS256"
    \/ now >= AccessExp(jar.accessToken)

\* C38: a logout request that the gate refuses is answered 401 without any
\* Set-Cookie, changes no record of the users table and leaves the
\* browser's cookies as they were; logoutAction goes on to its end without
\* throwing, with user and cached user cleared; and the refresh token the
\* browser holds is accepted by validateRefreshToken after it exactly as
\* before it.
C38_RefusedLogoutChangesNothing ==
    [][\A dbOk \in BOOLEAN :
          (GateRefusesJar /\ SessionLogout(dbOk)) =>
              /\ reply'.status = 401
              /\ reply'.access = "kept"
              /\ reply'.refresh = "kept"
              /\ users' = users
              /\ jar' = jar
              /\ user' = None
              /\ cache' = None
              /\ logoutPc' \in {"nav", "done"}
              /\ validateRefreshToken(users', jar'.refreshToken, now')
                    = validateRefreshToken(users, jar.refreshToken, now)]_vars

\* A login set both cookies, the access token expired, the user's logout
\* was refused with 401 and ended with the user cleared, and the refresh
\* request that followed was answered 200.
C38_Witness ==
    /\ trail = [endpoint |-> "logout", status |-> 401]
    /\ reply.endpoint = "refresh"
    /\ reply.status = 200
    /\ hist.logoutAnswer = 401
    /\ logoutPc = "done"
    /\ user = None
    /\ cache = None

\* --------------------------------------------- account: claims, continued
\* C39 as stated: after a registration answered 201, validateUser with the
\* registered email and the registered secret returns the account, and
\* with any other secret it returns null.
C39_RegisterThenValidate ==
    \A k \in Registers :
        (registers[k].pc = "done" /\ registers[k].status = 201) =>
            /\ validateUser(accounts, registers[k].email, registers[k].password) # NoAccount
            /\ validateUser(accounts, registers[k].email, registers[k].password)
                  = findOneByEmail(accounts, registers[k].email)
            /\ \A other \in Secrets \ {registers[k].password} :
                  validateUser(accounts, registers[k].email, other) = NoAccount

====
